---- MODULE Spec2Model ----
(***************************************************************************)
(* Injection engine of rm2in2: the LD_PRELOAD read() hook, its event ring, *)
(* the digitizer classification, the FIFO command reader and the          *)
(* suppression window.                                                     *)
(*                                                                         *)
(* The hook and the suppression logic follow                               *)
(*   src/resources/old/rm2-inject-v4/src/inject_hook.c                     *)
(* (the variant with suppression and cursor tracking); the ring and        *)
(* is_wacom are the same code in src/Rm2/src/inject.c, whose reader alone  *)
(* reassembles lines and whose mapper differs (to_wacom_x, to_wacom_y).    *)
(* The mapper over the usable raw ranges is that of                        *)
(*   src/test-output/pen_shapes_constants.h                                *)
(***************************************************************************)
EXTENDS Integers, Sequences, FiniteSets, TLC

(***************************************************************************)
(* Bounds of the model                                                     *)
(***************************************************************************)
\* slots of the ring (MAX_QUEUE is 10000 in the source; the ring code is
\* the same for any size >= 2)
RingSlots == 4
\* commands the FIFO delivers in one run
MaxCmds == 1
\* read() calls the host makes in one run
MaxReads == 2
\* clock advances in one run
MaxTicks == 2
\* chunks the FIFO delivers in one run
MaxChunks == 2
\* commands that stamp last_injection_time, in the stamping specification
MaxStamps == 2

(***************************************************************************)
(* Program constants                                                       *)
(***************************************************************************)
MAX_QUEUE == RingSlots
SUPPRESSION_MS == 150
\* src/Rm2/src/inject.c: sizeof(leftover), and the longest DELAY that is
\* obeyed, in milliseconds
LeftoverSize == 256
\* sizeof(cmd), the destination of %s
CmdSize == 32
DelayCapMs == 1000
WACOM_MAX_X == 15725
WACOM_MAX_Y == 20967
RM2_WIDTH == 1404
RM2_HEIGHT == 1872
PRESSURE == 2000
\* linux/input.h
EV_SYN == 0
EV_KEY == 1
EV_ABS == 3
SYN_REPORT == 0
ABS_X == 0
ABS_Y == 1
ABS_PRESSURE == 24
BTN_TOOL_PEN == 320
BTN_TOUCH == 330
\* sizeof(struct input_event) on the 32-bit ARM target
RecordSize == 16
\* struct timespec arithmetic
NsPerSec == 1000000000
NsPerMs == 1000000
MsPerSec == 1000
UsPerSec == 1000000
UsPerMs == 1000
NsPerUs == 1000
\* wacom_fd before detection
NoFd == -1

(***************************************************************************)
(* C arithmetic                                                            *)
(***************************************************************************)
\* C integer division: truncation toward zero
CDiv(a, b) ==
    IF a >= 0 THEN a \div b ELSE -((-a) \div b)

Min(a, b) == IF a <= b THEN a ELSE b

\* `int' has 32 bits: 2^16, and INT_MAX
Word16 == 256 * 256
IntMax == (Word16 \div 2 - 1) * Word16 + (Word16 - 1)

\* the exact product of an int a and a constant b in 1..32767 is an int
fits_int(a, b) ==
    a <= IntMax \div b /\ a >= -(IntMax \div b)

\* a * b in 32-bit two's complement, b in 1..32767: the low 32 bits of
\* the product, computed on 16-bit halves of a
mul_int(a, b) ==
    LET ah == a \div Word16
        al == a % Word16
        lo == al * b
        hi == (ah * b + lo \div Word16) % Word16
    IN  (IF hi >= Word16 \div 2 THEN hi - Word16 ELSE hi) * Word16
            + (lo % Word16)

\* an int product that does not fit is undefined: the build wraps it, or
\* it traps and the process is stopped
SignedOverflow == { "wraps", "stopped" }

(***************************************************************************)
(* Events                                                                  *)
(***************************************************************************)
make_event(type, code, value) ==
    [type |-> type, code |-> code, value |-> value]

\* static storage is zero-initialised
ZeroEvent == make_event(0, 0, 0)

display_to_wacom_x(display_x) ==
    CDiv(display_x * WACOM_MAX_Y, RM2_WIDTH)

display_to_wacom_y(display_y) ==
    CDiv(display_y * WACOM_MAX_X, RM2_HEIGHT)

(***************************************************************************)
(* The other mappers of the repository                                     *)
(***************************************************************************)
\* src/test-output/pen_shapes_constants.h: usable raw ranges
DISPLAY_WIDTH == 1404
DISPLAY_HEIGHT == 1872
WACOM_X_MIN == 211
WACOM_X_MAX == 20820
WACOM_Y_MIN == 90
WACOM_Y_MAX == 15712
WACOM_X_RANGE == WACOM_X_MAX - WACOM_X_MIN
WACOM_Y_RANGE == WACOM_Y_MAX - WACOM_Y_MIN

\* mutant: the scaled value is added to the lower bound
usable_to_wacom_x_not_inverted(display_x, display_y) ==
    WACOM_X_MIN + CDiv(display_y * WACOM_X_RANGE, DISPLAY_HEIGHT)

\* display_to_wacom_x(display_x, display_y) of pen_shapes_constants.h
usable_to_wacom_x(display_x, display_y) ==
    WACOM_X_MAX - CDiv(display_y * WACOM_X_RANGE, DISPLAY_HEIGHT)

\* display_to_wacom_y(display_x, display_y) of pen_shapes_constants.h
usable_to_wacom_y(display_x, display_y) ==
    WACOM_Y_MIN + CDiv(display_x * WACOM_Y_RANGE, DISPLAY_WIDTH)

\* clamp_wacom_x(x) and clamp_wacom_y(y) of pen_shapes_constants.h
clamp_wacom_x(x) ==
    IF x < WACOM_X_MIN THEN WACOM_X_MIN
    ELSE IF x > WACOM_X_MAX THEN WACOM_X_MAX
    ELSE x

clamp_wacom_y(y) ==
    IF y < WACOM_Y_MIN THEN WACOM_Y_MIN
    ELSE IF y > WACOM_Y_MAX THEN WACOM_Y_MAX
    ELSE y

\* src/Rm2/src/inject.c: WACOM_MAX_X and WACOM_MAX_Y of that file
WACOM_HW_X_MAX == 20966
WACOM_HW_Y_MAX == 15725

\* mutant: the result is clamped to the range of the sensor
to_wacom_x_clamped(pen_x, pen_y) ==
    LET wx == WACOM_HW_X_MAX - CDiv(pen_y * WACOM_HW_X_MAX, DISPLAY_HEIGHT)
    IN  IF wx < 0 THEN 0 ELSE IF wx > WACOM_HW_X_MAX THEN WACOM_HW_X_MAX
        ELSE wx

\* pen_y * WACOM_MAX_X is an int product
to_wacom_x(pen_x, pen_y) ==
    WACOM_HW_X_MAX - CDiv(mul_int(pen_y, WACOM_HW_X_MAX), DISPLAY_HEIGHT)

\* pen_x * WACOM_MAX_Y is an int product
to_wacom_y(pen_x, pen_y) ==
    CDiv(mul_int(pen_x, WACOM_HW_Y_MAX), DISPLAY_WIDTH)

(***************************************************************************)
(* Strings are sequences of characters                                     *)
(***************************************************************************)
InputPrefix ==
    << "/", "d", "e", "v", "/", "i", "n", "p", "u", "t", "/",
       "e", "v", "e", "n", "t" >>

WacomWord == << "W", "a", "c", "o", "m" >>

\* strncmp(s, p, n) == 0: compare up to n characters, stopping behind a
\* terminator common to both strings
RECURSIVE StrNCmpFrom(_, _, _, _)
StrNCmpFrom(s, p, n, i) ==
    IF i > n THEN TRUE
    ELSE LET cs == IF i <= Len(s) THEN s[i] ELSE "NUL"
             cp == IF i <= Len(p) THEN p[i] ELSE "NUL"
         IN  IF cs # cp THEN FALSE
             ELSE IF cs = "NUL" THEN TRUE
             ELSE StrNCmpFrom(s, p, n, i + 1)

StrNCmpEq(s, p, n) == StrNCmpFrom(s, p, n, 1)

\* strstr(hay, needle) != NULL
StrStr(hay, needle) ==
    \E i \in 1..(Len(hay) + 1) :
        /\ i + Len(needle) - 1 <= Len(hay)
        /\ \A j \in 1..Len(needle) : hay[i + j - 1] = needle[j]

(***************************************************************************)
(* File handles the host may read.  What readlink("/proc/self/fd/N") and   *)
(* ioctl(EVIOCGNAME) answer for each of them is fixed by the environment;  *)
(* Failed stands for a return value of -1.                                 *)
(***************************************************************************)
Failed == << "ERR" >>

FdWacom == 3
FdTouch == 4
FdFile == 5
FdWacom2 == 6
FdNoLink == 7
FdNoName == 8
FdOddPath == 9

Fds == { FdWacom, FdTouch, FdFile, FdWacom2, FdNoLink, FdNoName, FdOddPath }

WacomName ==
    << "W", "a", "c", "o", "m", " ", "I", "2", "C", " ",
       "D", "i", "g", "i", "t", "i", "z", "e", "r" >>

\* readlink() result
FdLink(fd) ==
    CASE fd = FdWacom   -> InputPrefix \o << "1" >>
      [] fd = FdWacom2  -> InputPrefix \o << "1" >>
      [] fd = FdTouch   -> InputPrefix \o << "2" >>
      [] fd = FdNoName  -> InputPrefix \o << "0" >>
      [] fd = FdFile    -> << "/", "t", "m", "p", "/", "l", "o", "g" >>
      [] fd = FdOddPath -> << "/", "d", "e", "v", "/", "i", "n", "p", "u", "t",
                              "/", "m", "i", "c", "e" >>
      [] OTHER          -> Failed

\* ioctl(fd, EVIOCGNAME) result
FdName(fd) ==
    CASE fd = FdWacom   -> WacomName
      [] fd = FdWacom2  -> WacomName
      [] fd = FdTouch   -> << "p", "t", "_", "m", "t" >>
      [] fd = FdOddPath -> WacomName
      [] fd = FdNoLink  -> WacomName
      [] OTHER          -> Failed

\* mutant: the device name is fetched but not matched
is_wacom_any_name(fd) ==
    IF FdLink(fd) = Failed THEN FALSE
    ELSE IF ~StrNCmpEq(FdLink(fd), InputPrefix, 16) THEN FALSE
    ELSE IF FdName(fd) = Failed THEN FALSE
    ELSE TRUE

is_wacom(fd) ==
    IF FdLink(fd) = Failed THEN FALSE
    ELSE IF ~StrNCmpEq(FdLink(fd), InputPrefix, 16) THEN FALSE
    ELSE IF FdName(fd) = Failed THEN FALSE
    ELSE StrStr(FdName(fd), WacomWord)

(***************************************************************************)
(* Threads                                                                 *)
(***************************************************************************)
\* host threads that call read()
Hosts == { "h1", "h2" }
\* FIFO reader threads that pthread_create can start: one per host thread
\* that passes the detection test
Chans == 1..Cardinality(Hosts)

\* requestedCount values: less than one record, one record, two records
Counts == { 8, 16, 32 }

\* display points the scripts use
Points == { << 0, 0 >>, << 1404, 1872 >> }

Commands ==
    { [op |-> o, x |-> p[1], y |-> p[2]] :
          o \in { "PEN_DOWN", "PEN_MOVE" }, p \in Points }
    \cup { [op |-> o, x |-> 0, y |-> 0] : o \in { "PEN_UP", "GET_CURSOR" } }

\* what the digitizer reports to a real read of n records
HwSample ==
    << make_event(EV_ABS, ABS_X, 5000),
       make_event(EV_ABS, ABS_Y, 6000),
       make_event(EV_SYN, SYN_REPORT, 0) >>

\* clock advances, in nanoseconds: half a millisecond, the window
TickSteps == { 500000, 150000000 }

(***************************************************************************)
(* State                                                                   *)
(***************************************************************************)
VARIABLES
    queue,                \* the ring, slots 0..MAX_QUEUE-1
    q_head,
    q_tail,
    wacom_fd,
    original_read,        \* TRUE once dlsym has resolved the real read
    last_pen_x,
    last_pen_y,
    last_injection_time,  \* struct timespec
    suppress_input,
    now,                  \* CLOCK_MONOTONIC
    host,                 \* per host thread: position in read() and locals
    chan,                 \* per FIFO reader thread: position and locals
    started,              \* pthread_create calls made so far
    drops,                \* "Queue full" warnings written to stderr
    accepted,             \* history: events stored by enqueue, in order
    dequeued,             \* history: events handed out by dequeue, in order
    lastMark,             \* history: clock value of the last timestamp written
    lastDown,             \* history: clock value stamped by the last PEN_DOWN
    cmds,                 \* commands delivered so far
    reads,                \* read() calls made so far
    ticks                 \* clock advances so far

vars ==
    << queue, q_head, q_tail, wacom_fd, original_read, last_pen_x,
       last_pen_y, last_injection_time, suppress_input, now, host, chan,
       started, drops, accepted, dequeued, lastMark, lastDown, cmds, reads,
       ticks >>

(***************************************************************************)
(* The ring.  Every operation runs between pthread_mutex_lock(&q_lock) and *)
(* pthread_mutex_unlock(&q_lock), so it is one atomic step.                *)
(***************************************************************************)
Ring == [queue |-> queue, q_head |-> q_head, q_tail |-> q_tail]

\* mutant: no test for a full ring
enqueue_unchecked(Q, ev) ==
    [Q |-> [Q EXCEPT !.queue[Q.q_tail] = ev,
                     !.q_tail = (Q.q_tail + 1) % MAX_QUEUE],
     stored |-> TRUE, warned_locked |-> FALSE]

\* mutant: the slot is written before the test for a full ring
enqueue_write_first(Q, ev) ==
    IF (Q.q_tail + 1) % MAX_QUEUE # Q.q_head
    THEN [Q |-> [Q EXCEPT !.queue[Q.q_tail] = ev,
                          !.q_tail = (Q.q_tail + 1) % MAX_QUEUE],
          stored |-> TRUE, warned_locked |-> FALSE]
    ELSE [Q |-> [Q EXCEPT !.queue[Q.q_tail] = ev], stored |-> FALSE, warned_locked |-> TRUE]

\* warned_locked: the "Queue full" warning was written to stderr before
\* pthread_mutex_unlock
enqueue(Q, ev) ==
    IF (Q.q_tail + 1) % MAX_QUEUE # Q.q_head
    THEN [Q |-> [Q EXCEPT !.queue[Q.q_tail] = ev,
                          !.q_tail = (Q.q_tail + 1) % MAX_QUEUE],
          stored |-> TRUE, warned_locked |-> FALSE]
    ELSE [Q |-> Q, stored |-> FALSE, warned_locked |-> TRUE]

\* mutant: the newest event is handed out
dequeue_newest(Q) ==
    IF Q.q_head = Q.q_tail
    THEN [Q |-> Q, ok |-> 0, ev |-> ZeroEvent]
    ELSE [Q |-> [Q EXCEPT !.q_tail = (Q.q_tail + MAX_QUEUE - 1) % MAX_QUEUE],
          ok |-> 1,
          ev |-> Q.queue[(Q.q_tail + MAX_QUEUE - 1) % MAX_QUEUE]]

\* mutant: a ring holding one event is taken for empty
dequeue_off_by_one(Q) ==
    IF Q.q_head = Q.q_tail \/ (Q.q_head + 1) % MAX_QUEUE = Q.q_tail
    THEN [Q |-> Q, ok |-> 0, ev |-> ZeroEvent]
    ELSE [Q |-> [Q EXCEPT !.q_head = (Q.q_head + 1) % MAX_QUEUE],
          ok |-> 1, ev |-> Q.queue[Q.q_head]]

\* mutant: the oldest event is handed out and stays in the ring
dequeue_peek(Q) ==
    IF Q.q_head = Q.q_tail
    THEN [Q |-> Q, ok |-> 0, ev |-> ZeroEvent]
    ELSE [Q |-> Q, ok |-> 1, ev |-> Q.queue[Q.q_head]]

dequeue(Q) ==
    IF Q.q_head = Q.q_tail
    THEN [Q |-> Q, ok |-> 0, ev |-> ZeroEvent]
    ELSE [Q |-> [Q EXCEPT !.q_head = (Q.q_head + 1) % MAX_QUEUE],
          ok |-> 1, ev |-> Q.queue[Q.q_head]]

has_events(Q) == Q.q_head # Q.q_tail

\* the events between head and tail, oldest first
QLen == (q_tail - q_head + MAX_QUEUE) % MAX_QUEUE

QContents == [i \in 1..QLen |-> queue[(q_head + i - 1) % MAX_QUEUE]]

(***************************************************************************)
(* Time                                                                    *)
(***************************************************************************)
timediff_ms(start, end) ==
    (end.tv_sec - start.tv_sec) * MsPerSec
        + CDiv(end.tv_nsec - start.tv_nsec, NsPerMs)

\* a timespec as microseconds (the clock of the model advances by whole
\* microseconds)
Us(ts) == ts.tv_sec * UsPerSec + ts.tv_nsec \div NsPerUs

WindowUs == SUPPRESSION_MS * UsPerMs

TimeAfter(ts, d) ==
    [tv_sec  |-> ts.tv_sec + (ts.tv_nsec + d) \div NsPerSec,
     tv_nsec |-> (ts.tv_nsec + d) % NsPerSec]

(***************************************************************************)
(* Cursor tracking                                                         *)
(***************************************************************************)
\* mutant: ABS_Y is not tracked
RECURSIVE track_stylus_position_x_only(_, _, _)
track_stylus_position_x_only(events, count, pen) ==
    IF count = 0 THEN pen
    ELSE LET before == track_stylus_position_x_only(events, count - 1, pen)
             e == events[count]
         IN  IF e.type = EV_ABS /\ e.code = ABS_X
             THEN [before EXCEPT !.x = e.value]
             ELSE before

RECURSIVE track_stylus_position(_, _, _)
track_stylus_position(events, count, pen) ==
    IF count = 0 THEN pen
    ELSE LET before == track_stylus_position(events, count - 1, pen)
             e == events[count]
         IN  IF e.type = EV_ABS
             THEN IF e.code = ABS_X THEN [before EXCEPT !.x = e.value]
                  ELSE IF e.code = ABS_Y THEN [before EXCEPT !.y = e.value]
                  ELSE before
             ELSE before

(***************************************************************************)
(* The events one command appends                                          *)
(***************************************************************************)
\* mutant: PEN_MOVE asserts the contact again before it moves
CommandEvents_move_touch(cmd) ==
    CASE cmd.op = "PEN_DOWN" ->
            << make_event(EV_KEY, BTN_TOOL_PEN, 1),
               make_event(EV_KEY, BTN_TOUCH, 1),
               make_event(EV_ABS, ABS_X, display_to_wacom_x(cmd.x)),
               make_event(EV_ABS, ABS_Y, display_to_wacom_y(cmd.y)),
               make_event(EV_ABS, ABS_PRESSURE, PRESSURE),
               make_event(EV_SYN, SYN_REPORT, 0) >>
      [] cmd.op = "PEN_MOVE" ->
            << make_event(EV_KEY, BTN_TOUCH, 1),
               make_event(EV_ABS, ABS_X, display_to_wacom_x(cmd.x)),
               make_event(EV_ABS, ABS_Y, display_to_wacom_y(cmd.y)),
               make_event(EV_ABS, ABS_PRESSURE, PRESSURE),
               make_event(EV_SYN, SYN_REPORT, 0) >>
      [] cmd.op = "PEN_UP" ->
            << make_event(EV_KEY, BTN_TOUCH, 0),
               make_event(EV_KEY, BTN_TOOL_PEN, 0),
               make_event(EV_SYN, SYN_REPORT, 0) >>
      [] OTHER -> << >>

\* mutant: PEN_DOWN commits before it sets the pressure
CommandEvents_sync_early(cmd) ==
    CASE cmd.op = "PEN_DOWN" ->
            << make_event(EV_KEY, BTN_TOOL_PEN, 1),
               make_event(EV_KEY, BTN_TOUCH, 1),
               make_event(EV_ABS, ABS_X, display_to_wacom_x(cmd.x)),
               make_event(EV_ABS, ABS_Y, display_to_wacom_y(cmd.y)),
               make_event(EV_SYN, SYN_REPORT, 0),
               make_event(EV_ABS, ABS_PRESSURE, PRESSURE) >>
      [] cmd.op = "PEN_MOVE" ->
            << make_event(EV_ABS, ABS_X, display_to_wacom_x(cmd.x)),
               make_event(EV_ABS, ABS_Y, display_to_wacom_y(cmd.y)),
               make_event(EV_ABS, ABS_PRESSURE, PRESSURE),
               make_event(EV_SYN, SYN_REPORT, 0) >>
      [] cmd.op = "PEN_UP" ->
            << make_event(EV_KEY, BTN_TOUCH, 0),
               make_event(EV_KEY, BTN_TOOL_PEN, 0),
               make_event(EV_SYN, SYN_REPORT, 0) >>
      [] OTHER -> << >>

\* mutant: PEN_UP clears in-range before contact
CommandEvents_up_swapped(cmd) ==
    CASE cmd.op = "PEN_DOWN" ->
            << make_event(EV_KEY, BTN_TOOL_PEN, 1),
               make_event(EV_KEY, BTN_TOUCH, 1),
               make_event(EV_ABS, ABS_X, display_to_wacom_x(cmd.x)),
               make_event(EV_ABS, ABS_Y, display_to_wacom_y(cmd.y)),
               make_event(EV_ABS, ABS_PRESSURE, PRESSURE),
               make_event(EV_SYN, SYN_REPORT, 0) >>
      [] cmd.op = "PEN_MOVE" ->
            << make_event(EV_ABS, ABS_X, display_to_wacom_x(cmd.x)),
               make_event(EV_ABS, ABS_Y, display_to_wacom_y(cmd.y)),
               make_event(EV_ABS, ABS_PRESSURE, PRESSURE),
               make_event(EV_SYN, SYN_REPORT, 0) >>
      [] cmd.op = "PEN_UP" ->
            << make_event(EV_KEY, BTN_TOOL_PEN, 0),
               make_event(EV_KEY, BTN_TOUCH, 0),
               make_event(EV_SYN, SYN_REPORT, 0) >>
      [] OTHER -> << >>

CommandEvents(cmd) ==
    CASE cmd.op = "PEN_DOWN" ->
            << make_event(EV_KEY, BTN_TOOL_PEN, 1),
               make_event(EV_KEY, BTN_TOUCH, 1),
               make_event(EV_ABS, ABS_X, display_to_wacom_x(cmd.x)),
               make_event(EV_ABS, ABS_Y, display_to_wacom_y(cmd.y)),
               make_event(EV_ABS, ABS_PRESSURE, PRESSURE),
               make_event(EV_SYN, SYN_REPORT, 0) >>
      [] cmd.op = "PEN_MOVE" ->
            << make_event(EV_ABS, ABS_X, display_to_wacom_x(cmd.x)),
               make_event(EV_ABS, ABS_Y, display_to_wacom_y(cmd.y)),
               make_event(EV_ABS, ABS_PRESSURE, PRESSURE),
               make_event(EV_SYN, SYN_REPORT, 0) >>
      [] cmd.op = "PEN_UP" ->
            << make_event(EV_KEY, BTN_TOUCH, 0),
               make_event(EV_KEY, BTN_TOOL_PEN, 0),
               make_event(EV_SYN, SYN_REPORT, 0) >>
      [] OTHER -> << >>

(***************************************************************************)
(* sscanf(buf, "%s %d %d", cmd, &x, &y)                                    *)
(***************************************************************************)
IsSpace(ch) == ch \in { " ", "\t", "\n" }

DigitChars == << "0", "1", "2", "3", "4", "5", "6", "7", "8", "9" >>

IsDigit(ch) == \E d \in 1..Len(DigitChars) : DigitChars[d] = ch

DigitVal(ch) == (CHOOSE d \in 1..Len(DigitChars) : DigitChars[d] = ch) - 1

\* the first position from i on that holds no white space
RECURSIVE SkipSpace(_, _)
SkipSpace(s, i) ==
    IF i <= Len(s) /\ IsSpace(s[i]) THEN SkipSpace(s, i + 1) ELSE i

\* the first position from i on that holds white space, or the end
RECURSIVE WordEnd(_, _)
WordEnd(s, i) ==
    IF i <= Len(s) /\ ~IsSpace(s[i]) THEN WordEnd(s, i + 1) ELSE i

\* the first position from i on that holds no digit
RECURSIVE DigitsEnd(_, _)
DigitsEnd(s, i) ==
    IF i <= Len(s) /\ IsDigit(s[i]) THEN DigitsEnd(s, i + 1) ELSE i

\* the decimal value of the digits s[i..j-1]
RECURSIVE Decimal(_, _, _)
Decimal(s, i, j) ==
    IF j <= i THEN 0
    ELSE Decimal(s, i, j - 1) * Len(DigitChars) + DigitVal(s[j - 1])

\* %d from position i: white space, an optional sign, digits
ScanInt(s, i) ==
    LET a == SkipSpace(s, i)
        signed == a <= Len(s) /\ s[a] \in { "-", "+" }
        b == IF signed THEN a + 1 ELSE a
        e == DigitsEnd(s, b)
    IN  IF e = b
        THEN [ok |-> FALSE, value |-> 0, next |-> a]
        ELSE [ok |-> TRUE,
              value |-> IF signed /\ s[a] = "-"
                        THEN -Decimal(s, b, e) ELSE Decimal(s, b, e),
              next |-> e]

\* the return value and what was stored; x and y keep `was' where no
\* conversion stored into them
sscanf(buf, was) ==
    LET a == SkipSpace(buf, 1)
        e == WordEnd(buf, a)
        ix == ScanInt(buf, e)
        iy == ScanInt(buf, ix.next)
    IN  IF a > Len(buf)
        THEN [n |-> -1, cmd |-> << >>, x |-> was, y |-> was]
        ELSE IF ~ix.ok
        THEN [n |-> 1, cmd |-> SubSeq(buf, a, e - 1), x |-> was, y |-> was]
        ELSE IF ~iy.ok
        THEN [n |-> 2, cmd |-> SubSeq(buf, a, e - 1),
              x |-> ix.value, y |-> was]
        ELSE [n |-> 3, cmd |-> SubSeq(buf, a, e - 1),
              x |-> ix.value, y |-> iy.value]

\* the bytes %s stores into cmd: the first word and its terminating NUL;
\* the conversion has no field width
StoredBytes(buf) ==
    LET a == SkipSpace(buf, 1)
    IN  IF a > Len(buf) THEN 0 ELSE WordEnd(buf, a) - a + 1

\* storing past the end of cmd is undefined: the thread goes on with
\* whatever the overrun left, or the process is stopped
Overrun == { "goes_on", "stopped" }

\* the keywords, as strcmp sees them
KwPenDown == << "P", "E", "N", "_", "D", "O", "W", "N" >>
KwPenMove == << "P", "E", "N", "_", "M", "O", "V", "E" >>
KwPenUp == << "P", "E", "N", "_", "U", "P" >>
KwGetCursor == << "G", "E", "T", "_", "C", "U", "R", "S", "O", "R" >>

\* the branch the strcmp chain takes
Keyword(cmd) ==
    CASE cmd = KwPenDown   -> "PEN_DOWN"
      [] cmd = KwPenMove   -> "PEN_MOVE"
      [] cmd = KwPenUp     -> "PEN_UP"
      [] cmd = KwGetCursor -> "GET_CURSOR"
      [] OTHER             -> "OTHER"

\* `int x, y;' have no initialiser in fifo_reader_thread: an argument that
\* sscanf did not store is whatever the stack held
Indeterminate == { 0, 1404 }

(***************************************************************************)
(* What the transport delivers: the bytes of one read() on the FIFO        *)
(***************************************************************************)
TxtCorner == << " ", "1", "4", "0", "4", " ", "1", "8", "7", "2", "\n" >>
TxtDownCorner == KwPenDown \o TxtCorner
TxtMoveCorner == KwPenMove \o TxtCorner
TxtUp == KwPenUp \o << "\n" >>
TxtUpArgs == KwPenUp \o << " ", "7", " ", "9", "\n" >>
TxtThreeLines ==
    KwPenDown \o << " ", "1", " ", "2", "\n" >> \o
    KwPenMove \o << " ", "3", " ", "4", "\n" >> \o
    KwPenUp \o << "\n" >>
TxtUnknown == << "F", "O", "O", " ", "1", " ", "2", "\n" >>
TxtDownAbc == KwPenDown \o << " ", "a", "b", "c", " ", "5", "\n" >>
TxtDownOneArg == KwPenDown \o << " ", "1", "0", "\n" >>
TxtSplitHead == << "P", "E", "N", "_", "D", "O" >>
TxtSplitTail == << "W", "N", " ", "1", "0", " ", "2", "0", "\n" >>
TxtBlank == << "\n" >>
\* a keyword of n letters
LongWord(n) == [i \in 1..n |-> "A"]
\* the longest keyword cmd has room for, and one letter more
TxtFitWord == LongWord(CmdSize - 1) \o << "\n" >>
TxtLongWord == LongWord(CmdSize) \o << " ", "1", " ", "2", "\n" >>
LongChunks == { TxtFitWord, TxtLongWord, TxtDownCorner, TxtUnknown }

Chunks ==
    { TxtDownCorner, TxtMoveCorner, TxtUp, TxtUpArgs, TxtThreeLines,
      TxtUnknown, TxtDownAbc, TxtDownOneArg, TxtSplitHead, TxtSplitTail,
      TxtBlank }

\* chunks for the reader that carries unfinished lines over
Spaces(n) == [i \in 1..n |-> " "]

\* the head of a comment line, too long to be carried over by one byte
TxtLongComment == << "#" >> \o Spaces(LeftoverSize - 1)
\* the longest head of a comment line that is carried over
TxtFitComment == << "#" >> \o Spaces(LeftoverSize - 2)
TxtCommented ==
    << "#", " ", "c", "\n", "\n" >> \o KwPenUp \o << "\n" >>

\* points outside the display
TxtDownOutside ==
    KwPenDown \o << " ", "-", "5", " ", "2", "0", "0", "0", "\n" >>
TxtMoveOutside ==
    KwPenMove \o << " ", "1", "5", "0", "0", " ", "-", "1", "\n" >>
\* a point far outside the display
TxtMoveWide ==
    KwPenMove \o << " ", "2", "0", "0", "0", "0", "0", " ", "0", "\n" >>
\* a whole command whose newline has not arrived
TxtUpNoNewline == KwPenUp
LineChunks ==
    { TxtThreeLines, TxtCommented, TxtLongComment, TxtFitComment, TxtUp,
      TxtSplitHead, TxtSplitTail, TxtUpNoNewline, TxtDownOutside,
      TxtMoveOutside, TxtMoveWide }

TxtDelay == << "D", "E", "L", "A", "Y", " " >>
TxtUpDelayUp ==
    TxtUp \o TxtDelay \o << "1", "0", "0", "\n" >> \o TxtUp
TxtDelayZero == TxtDelay \o << "0", "\n" >> \o TxtUp
TxtDelayNegative == TxtDelay \o << "-", "5", "\n" >> \o TxtUp
TxtDelayCap == TxtDelay \o << "1", "0", "0", "0", "\n" >> \o TxtUp
TxtDelayOver == TxtDelay \o << "1", "0", "0", "1", "\n" >> \o TxtUp

DelayChunks ==
    { TxtUpDelayUp, TxtDelayZero, TxtDelayNegative, TxtDelayCap,
      TxtDelayOver }

(***************************************************************************)
(* Initial state: the library has just been loaded into the host           *)
(***************************************************************************)
IdleHost ==
    [pc       |-> "idle",
     fd       |-> NoFd,      \* arguments of the call
     count    |-> 0,
     injected |-> 0,         \* locals of read()
     result   |-> 0,
     buf      |-> << >>,     \* what the call wrote to the caller's buffer
     ret      |-> 0,         \* what the call returned
     path     |-> "none",    \* how it returned: synthetic, real, discarded
     \* history of the call, used to state properties
     saw      |-> FALSE,     \* has_events() answered 1 for the target
     len0     |-> 0,         \* queue length at the has_events() check
     idx      |-> << >>,     \* position in `accepted' of each drained event
     mix      |-> FALSE,     \* another thread used the ring since the check
     robbed   |-> FALSE,     \* another thread dequeued since the check
     hw       |-> << >>,     \* the buffer as the real read filled it
     onTarget |-> FALSE,     \* fd == wacom_fd when the real read returned
     downAtCall |-> -1,      \* lastDown on entry
     inWindow |-> FALSE,     \* real read returned within the window of the
                             \* PEN_DOWN that preceded the call
     pastWindow |-> FALSE]   \* real read returned after the window of the
                             \* last timestamp

IdleChan ==
    [pc      |-> "none",     \* none: thread not created
     op      |-> "none",     \* command being executed
     pending |-> << >>,      \* events of the command not yet enqueued
     ts      |-> [tv_sec |-> 0, tv_nsec |-> 0],  \* clock_gettime result
     fed     |-> << >>,      \* history: the chunks read so far
     held_io |-> FALSE,      \* history: wrote to stderr holding the lock
     stored  |-> 0,          \* history: bytes the last sscanf stored in cmd
     warns   |-> 0,          \* history: "Coordinates out of bounds" warnings
     overflowed |-> FALSE,   \* history: an int product of the mapper did
                             \* not fit
     point   |-> << 0, 0 >>,  \* a caller of the header mapper: its display
                             \* point,
     raw     |-> << 0, 0 >>,  \* what the mapper returned for it,
     clamped |-> << 0, 0 >>,  \* and what the clamps returned for that
     ran     |-> << >>,      \* history: the keywords whose branch was run
     leftover |-> << >>,     \* char leftover[256]
     combined |-> << >>,     \* char combined[], from `line' on
     wake    |-> 0]          \* the clock value that ends usleep, in us

InitTimes ==
    { [tv_sec |-> 1, tv_nsec |-> 0],
      [tv_sec |-> 1, tv_nsec |-> 900000000] }

Init ==
    /\ queue = [i \in 0..(MAX_QUEUE - 1) |-> ZeroEvent]
    /\ q_head = 0
    /\ q_tail = 0
    /\ wacom_fd = NoFd
    /\ original_read = FALSE
    /\ last_pen_x = 0
    /\ last_pen_y = 0
    /\ last_injection_time = [tv_sec |-> 0, tv_nsec |-> 0]
    /\ suppress_input = 0
    /\ now \in InitTimes
    /\ host = [t \in Hosts |-> IdleHost]
    /\ chan = [c \in Chans |-> IdleChan]
    /\ started = 0
    /\ drops = 0
    /\ accepted = << >>
    /\ dequeued = << >>
    /\ lastMark = -1
    /\ lastDown = -1
    /\ cmds = 0
    /\ reads = 0
    /\ ticks = 0

\* The state after the first read() of the digitizer has returned: the
\* handle is adopted and one FIFO reader runs.
InitDetected ==
    /\ queue = [i \in 0..(MAX_QUEUE - 1) |-> ZeroEvent]
    /\ q_head = 0
    /\ q_tail = 0
    /\ wacom_fd = FdWacom
    /\ original_read = TRUE
    /\ last_pen_x = 0
    /\ last_pen_y = 0
    /\ last_injection_time = [tv_sec |-> 0, tv_nsec |-> 0]
    /\ suppress_input = 0
    /\ now \in InitTimes
    /\ host = [t \in Hosts |-> IdleHost]
    /\ chan = [c \in Chans |->
                  IF c = 1 THEN [IdleChan EXCEPT !.pc = "open"] ELSE IdleChan]
    /\ started = 1
    /\ drops = 0
    /\ accepted = << >>
    /\ dequeued = << >>
    /\ lastMark = -1
    /\ lastDown = -1
    /\ cmds = 0
    /\ reads = 0
    /\ ticks = 0

(***************************************************************************)
(* read(): the hook, run by host thread t                                  *)
(***************************************************************************)
queueVars == << queue, q_head, q_tail >>
penVars == << last_pen_x, last_pen_y >>
histVars == << accepted, dequeued, lastMark, lastDown >>

\* the call returns: the caller sees ret and buf, until its next call
Return(h, ret, buf, path) ==
    [h EXCEPT !.pc = "done", !.ret = ret, !.buf = buf, !.path = path]

\* mutant: the request size is rounded up to whole records
max_events_rounded_up(count) ==
    CDiv(count + RecordSize - 1, RecordSize)

\* int max_events = count / sizeof(struct input_event)
max_events(count) == CDiv(count, RecordSize)

\* mutant: queued events are held back while suppress_input is set
AfterDetect_quiet_only(h) ==
    LET saw == (h.fd = wacom_fd /\ has_events(Ring) /\ suppress_input = 0)
    IN  [h EXCEPT !.pc = IF saw /\ max_events(h.count) > 0
                         THEN "drain" ELSE "real",
                  !.saw = saw,
                  !.len0 = QLen]

\* fd == wacom_fd && queue_has_events(); a request for less than one
\* record skips the loop and falls through with injected == 0
AfterDetect(h) ==
    LET saw == (h.fd = wacom_fd /\ has_events(Ring))
    IN  [h EXCEPT !.pc = IF saw /\ max_events(h.count) > 0
                         THEN "drain" ELSE "real",
                  !.saw = saw,
                  !.len0 = QLen]

\* entry, lazy dlsym, and the test  wacom_fd == -1 && is_wacom(fd);  when
\* it fails the call goes on to the has_events() test
Enter(t, fd, count) ==
    /\ host[t].pc \in { "idle", "done" }
    /\ original_read' = TRUE
    /\ LET h == [IdleHost EXCEPT !.fd = fd,
                                 !.count = count,
                                 !.downAtCall = lastDown]
       IN  host' = [host EXCEPT ![t] =
               IF wacom_fd = NoFd /\ is_wacom(fd)
               THEN [h EXCEPT !.pc = "claim"]
               ELSE AfterDetect(h)]
    /\ UNCHANGED << queueVars, wacom_fd, penVars, last_injection_time,
                    suppress_input, now, chan, started, drops, histVars,
                    cmds, ticks >>

\* one of the first MaxReads calls of read()
Call(t, fd, count) ==
    /\ reads < MaxReads
    /\ reads' = reads + 1
    /\ Enter(t, fd, count)

\* a later call of read(): the count of calls stays at MaxReads
Recall(t, fd, count) ==
    /\ reads = MaxReads
    /\ reads' = reads
    /\ Enter(t, fd, count)

\* wacom_fd = fd; pthread_create(fifo_reader_thread)
Claim(t) ==
    /\ host[t].pc = "claim"
    /\ wacom_fd' = host[t].fd
    /\ started' = started + 1
    /\ chan' = [chan EXCEPT ![started + 1] = [IdleChan EXCEPT !.pc = "open"]]
    /\ host' = [host EXCEPT ![t].pc = "has"]
    /\ UNCHANGED << queueVars, original_read, penVars, last_injection_time,
                    suppress_input, now, drops, histVars, cmds, reads,
                    ticks >>

\* the has_events() test of the call that adopted the handle
HasEvents(t) ==
    /\ host[t].pc = "has"
    /\ host' = [host EXCEPT ![t] = AfterDetect(host[t])]
    /\ UNCHANGED << queueVars, wacom_fd, original_read, penVars,
                    last_injection_time, suppress_input, now, chan, started,
                    drops, histVars, cmds, reads, ticks >>

\* the other host threads that are past their has_events() check learn that
\* the ring was used
Disturb(h, t, isDequeue) ==
    [u \in Hosts |->
        IF u # t /\ h[u].pc = "drain"
        THEN [h[u] EXCEPT !.mix = TRUE,
                          !.robbed = (@ \/ isDequeue)]
        ELSE h[u]]

\* mutant: the return behind the loop does not test injected > 0
Drain_returns_empty(t) ==
    /\ host[t].pc = "drain"
    /\ LET d == dequeue(Ring)
           h == host[t]
       IN  IF d.ok = 1
           THEN /\ queue' = d.Q.queue
                /\ q_head' = d.Q.q_head
                /\ q_tail' = d.Q.q_tail
                /\ dequeued' = Append(dequeued, d.ev)
                /\ LET h1 == [h EXCEPT !.injected = @ + 1,
                                       !.buf = Append(@, d.ev),
                                       !.idx = Append(@, Len(dequeued) + 1)]
                       h2 == IF h1.injected < max_events(h.count)
                             THEN h1
                             ELSE Return(h1, h1.injected * RecordSize,
                                         h1.buf, "synthetic")
                   IN  host' = [Disturb(host, t, TRUE) EXCEPT ![t] = h2]
           ELSE /\ UNCHANGED << queueVars, dequeued >>
                /\ host' = [host EXCEPT ![t] =
                       Return(h, h.injected * RecordSize, h.buf,
                              "synthetic")]
    /\ UNCHANGED << wacom_fd, original_read, penVars, last_injection_time,
                    suppress_input, now, chan, started, drops, accepted,
                    lastMark, lastDown, cmds, reads, ticks >>

\* one turn of  while (injected < max_events && dequeue_event(...)),
\* and the return behind the loop
Drain(t) ==
    /\ host[t].pc = "drain"
    /\ LET d == dequeue(Ring)
           h == host[t]
       IN  IF d.ok = 1
           THEN /\ queue' = d.Q.queue
                /\ q_head' = d.Q.q_head
                /\ q_tail' = d.Q.q_tail
                /\ dequeued' = Append(dequeued, d.ev)
                /\ LET h1 == [h EXCEPT !.injected = @ + 1,
                                       !.buf = Append(@, d.ev),
                                       !.idx = Append(@, Len(dequeued) + 1)]
                       h2 == IF h1.injected < max_events(h.count)
                             THEN h1
                             ELSE Return(h1, h1.injected * RecordSize,
                                         h1.buf, "synthetic")
                   IN  host' = [Disturb(host, t, TRUE) EXCEPT ![t] = h2]
           ELSE /\ UNCHANGED << queueVars, dequeued >>
                /\ host' = [host EXCEPT ![t] =
                       IF h.injected > 0
                       THEN Return(h, h.injected * RecordSize, h.buf,
                                   "synthetic")
                       ELSE [h EXCEPT !.pc = "real"]]
    /\ UNCHANGED << wacom_fd, original_read, penVars, last_injection_time,
                    suppress_input, now, chan, started, drops, accepted,
                    lastMark, lastDown, cmds, reads, ticks >>

\* what original_read can answer: an error, end of stream, or bytes
RealResults(fd, count) ==
    IF is_wacom(fd)
    THEN { -1, 0 } \cup
         { k * RecordSize : k \in 1..Min(CDiv(count, RecordSize),
                                         Len(HwSample)) }
    ELSE { -1, 0, count }

\* what original_read left in the caller's buffer
RealBuffer(fd, result) ==
    IF is_wacom(fd) /\ result > 0
    THEN SubSeq(HwSample, 1, result \div RecordSize)
    ELSE << >>

\* a FIFO reader is between the two stores of clock_gettime
Stamping == \E c \in Chans : chan[c].pc = "ts_nsec"

\* mutant: the suppression test does not look at the sign of the result
RealReturn_any_result(t, result) ==
    /\ host[t].pc = "real"
    /\ LET h0 == host[t]
           data == RealBuffer(h0.fd, result)
           h == [h0 EXCEPT
                   !.result = result,
                   !.hw = data,
                   !.onTarget = (h0.fd = wacom_fd),
                   !.inWindow = /\ h0.downAtCall # -1
                                /\ h0.downAtCall = lastDown
                                /\ Us(now) - lastDown <= WindowUs,
                   !.pastWindow = /\ lastMark # -1
                                  /\ ~Stamping
                                  /\ Us(now) - lastMark > WindowUs]
           pen == track_stylus_position(data, CDiv(result, RecordSize),
                                        [x |-> last_pen_x, y |-> last_pen_y])
       IN  IF h.fd = wacom_fd
           THEN IF suppress_input # 0
                THEN IF timediff_ms(last_injection_time, now)
                            > SUPPRESSION_MS
                     THEN /\ host' = [host EXCEPT ![t] =
                                 [h EXCEPT !.pc = "clear"]]
                          /\ UNCHANGED penVars
                     ELSE /\ host' = [host EXCEPT ![t] =
                                 Return(h, 0, data, "discarded")]
                          /\ UNCHANGED penVars
                ELSE /\ last_pen_x' = pen.x
                     /\ last_pen_y' = pen.y
                     /\ host' = [host EXCEPT ![t] =
                            Return(h, result, data, "real")]
           ELSE /\ host' = [host EXCEPT ![t] =
                       Return(h, result, data, "real")]
                /\ UNCHANGED penVars
    /\ UNCHANGED << queueVars, wacom_fd, original_read, last_injection_time,
                    suppress_input, now, chan, started, drops, histVars,
                    cmds, reads, ticks >>

\* original_read returns; suppression test and cursor tracking
RealReturn(t, result) ==
    /\ host[t].pc = "real"
    /\ LET h0 == host[t]
           data == RealBuffer(h0.fd, result)
           h == [h0 EXCEPT
                   !.result = result,
                   !.hw = data,
                   !.onTarget = (h0.fd = wacom_fd),
                   !.inWindow = /\ h0.downAtCall # -1
                                /\ h0.downAtCall = lastDown
                                /\ Us(now) - lastDown <= WindowUs,
                   !.pastWindow = /\ lastMark # -1
                                  /\ ~Stamping
                                  /\ Us(now) - lastMark > WindowUs]
           pen == track_stylus_position(data, CDiv(result, RecordSize),
                                        [x |-> last_pen_x, y |-> last_pen_y])
       IN  IF h.fd = wacom_fd /\ result > 0
           THEN IF suppress_input # 0
                THEN IF timediff_ms(last_injection_time, now)
                            > SUPPRESSION_MS
                     THEN /\ host' = [host EXCEPT ![t] =
                                 [h EXCEPT !.pc = "clear"]]
                          /\ UNCHANGED penVars
                     ELSE /\ host' = [host EXCEPT ![t] =
                                 Return(h, 0, data, "discarded")]
                          /\ UNCHANGED penVars
                ELSE /\ last_pen_x' = pen.x
                     /\ last_pen_y' = pen.y
                     /\ host' = [host EXCEPT ![t] =
                            Return(h, result, data, "real")]
           ELSE /\ host' = [host EXCEPT ![t] =
                       Return(h, result, data, "real")]
                /\ UNCHANGED penVars
    /\ UNCHANGED << queueVars, wacom_fd, original_read, last_injection_time,
                    suppress_input, now, chan, started, drops, histVars,
                    cmds, reads, ticks >>

\* suppress_input = 0, then tracking and return
Clear(t) ==
    /\ host[t].pc = "clear"
    /\ suppress_input' = 0
    /\ LET h == host[t]
           pen == track_stylus_position(h.hw, CDiv(h.result, RecordSize),
                                        [x |-> last_pen_x, y |-> last_pen_y])
       IN  /\ last_pen_x' = pen.x
           /\ last_pen_y' = pen.y
           /\ host' = [host EXCEPT ![t] = Return(h, h.result, h.hw, "real")]
    /\ UNCHANGED << queueVars, wacom_fd, original_read, last_injection_time,
                    now, chan, started, drops, histVars, cmds, reads, ticks >>

(***************************************************************************)
(* fifo_reader_thread(), run by FIFO reader c                              *)
(***************************************************************************)
hostSide == << wacom_fd, original_read, penVars, host, started, reads >>

\* mutant: leftover lives outside the loop and keeps its bytes
Open_keeps_leftover(c) ==
    /\ chan[c].pc = "open"
    /\ chan' = [chan EXCEPT ![c].pc = "read"]
    /\ UNCHANGED << queueVars, hostSide, last_injection_time,
                    suppress_input, now, drops, histVars, cmds, ticks >>

\* open(INJECT_FIFO, O_RDONLY) succeeds; leftover is initialised afresh
Open(c) ==
    /\ chan[c].pc = "open"
    /\ chan' = [chan EXCEPT ![c] = [@ EXCEPT !.pc = "read",
                                             !.leftover = << >>]]
    /\ UNCHANGED << queueVars, hostSide, last_injection_time,
                    suppress_input, now, drops, histVars, cmds, ticks >>

\* open fails: sleep(1); continue
OpenFail(c) ==
    /\ chan[c].pc = "open"
    /\ UNCHANGED vars

\* mutant: the thread returns when the FIFO reports end of stream
ReadEof_returns(c) ==
    /\ chan[c].pc = "read"
    /\ chan' = [chan EXCEPT ![c].pc = "exit"]
    /\ UNCHANGED << queueVars, hostSide, last_injection_time,
                    suppress_input, now, drops, histVars, cmds, ticks >>

\* read() on the FIFO returns n <= 0: close(fd) and open again
ReadEof(c) ==
    /\ chan[c].pc = "read"
    /\ chan' = [chan EXCEPT ![c].pc = "open"]
    /\ UNCHANGED << queueVars, hostSide, last_injection_time,
                    suppress_input, now, drops, histVars, cmds, ticks >>

\* the strcmp chain has picked the branch of cmd
Dispatch(ch, cmd) ==
    [ch EXCEPT !.op = cmd.op,
               !.ran = IF cmd.op = "OTHER" THEN @ ELSE Append(@, cmd.op),
               !.pending = CommandEvents(cmd),
               \* GET_CURSOR only prints; an unknown keyword does nothing
               !.pc = IF CommandEvents(cmd) = << >>
                      THEN "read" ELSE "enq"]

\* read() on the FIFO returns a command; sscanf and strcmp pick the branch
ReadCommand(c, cmd) ==
    /\ chan[c].pc = "read"
    /\ cmds < MaxCmds
    /\ cmds' = cmds + 1
    /\ chan' = [chan EXCEPT ![c] = Dispatch(@, cmd)]
    /\ UNCHANGED << queueVars, hostSide, last_injection_time,
                    suppress_input, now, drops, histVars, ticks >>

\* read() on the FIFO returns the bytes buf; sscanf is applied to the
\* whole of buf, and with a return value of 1 or more strcmp picks the
\* branch; at most `most' chunks are delivered in one run
ReadChunk(c, buf, most) ==
    /\ chan[c].pc = "read"
    /\ cmds < most
    /\ cmds' = cmds + 1
    /\ \E wasx \in Indeterminate, wasy \in Indeterminate :
          \E outcome \in IF StoredBytes(buf) > CmdSize
                          THEN Overrun ELSE { "goes_on" } :
          LET sx == sscanf(buf, wasx)
              sy == sscanf(buf, wasy)
              ch == [chan[c] EXCEPT !.fed = Append(@, buf),
                                    !.stored = StoredBytes(buf)]
          IN  chan' = [chan EXCEPT ![c] =
                  IF outcome = "stopped"
                  THEN [ch EXCEPT !.pc = "stopped"]
                  ELSE IF sx.n >= 1
                  THEN Dispatch(ch, [op |-> Keyword(sx.cmd),
                                     x |-> sx.x, y |-> sy.y])
                  ELSE ch]
    /\ UNCHANGED << queueVars, hostSide, last_injection_time,
                    suppress_input, now, drops, histVars, ticks >>

\* one queue_event() call of the command
Enqueue(c) ==
    /\ chan[c].pc = "enq"
    /\ LET ev == Head(chan[c].pending)
           rest == Tail(chan[c].pending)
           e == enqueue(Ring, ev)
       IN  /\ queue' = e.Q.queue
           /\ q_head' = e.Q.q_head
           /\ q_tail' = e.Q.q_tail
           /\ accepted' = IF e.stored THEN Append(accepted, ev) ELSE accepted
           /\ drops' = IF e.stored THEN drops ELSE drops + 1
           /\ chan' = [chan EXCEPT ![c] =
                  [@ EXCEPT !.pending = rest,
                            !.held_io = @ \/ e.warned_locked,
                            !.pc = IF rest # << >> THEN "enq"
                                   ELSE IF chan[c].op \in { "PEN_DOWN", "PEN_UP" }
                                   THEN "ts_sec" ELSE "read"]]
           /\ host' = IF e.stored THEN Disturb(host, "fifo", FALSE) ELSE host
    /\ UNCHANGED << wacom_fd, original_read, penVars, started, reads,
                    last_injection_time, suppress_input, now, dequeued,
                    lastMark, lastDown, cmds, ticks >>

\* get_current_time(&last_injection_time): the clock is read and tv_sec
\* is stored
StampSec(c) ==
    /\ chan[c].pc = "ts_sec"
    /\ last_injection_time' = [last_injection_time EXCEPT
                                  !.tv_sec = now.tv_sec]
    /\ chan' = [chan EXCEPT ![c] = [@ EXCEPT !.ts = now, !.pc = "ts_nsec"]]
    /\ UNCHANGED << queueVars, hostSide, suppress_input, now, drops,
                    histVars, cmds, ticks >>

\* ... and tv_nsec is stored
StampNsec(c) ==
    /\ chan[c].pc = "ts_nsec"
    /\ last_injection_time' = [last_injection_time EXCEPT
                                  !.tv_nsec = chan[c].ts.tv_nsec]
    /\ lastMark' = Us(chan[c].ts)
    /\ chan' = [chan EXCEPT ![c].pc =
                   IF chan[c].op = "PEN_DOWN" THEN "flag" ELSE "read"]
    /\ UNCHANGED << queueVars, hostSide, suppress_input, now, drops,
                    accepted, dequeued, lastDown, cmds, ticks >>

\* suppress_input = 1, the last statement of the PEN_DOWN branch
SetSuppress(c) ==
    /\ chan[c].pc = "flag"
    /\ suppress_input' = 1
    /\ lastDown' = Us(chan[c].ts)
    /\ chan' = [chan EXCEPT ![c].pc = "read"]
    /\ UNCHANGED << queueVars, hostSide, last_injection_time, now, drops,
                    accepted, dequeued, lastMark, cmds, ticks >>

(***************************************************************************)
(* fifo_reader() of src/Rm2/src/inject.c, run by FIFO reader c: the same   *)
(* loop with a carry-over of the unfinished line, one command per line,    *)
(* DELAY, and no suppression.  usleep() is taken to sleep for at least the *)
(* time asked for.                                                         *)
(***************************************************************************)
KwDelay == << "D", "E", "L", "A", "Y" >>

\* strchr(s, ch): the first position of ch in s, 0 for NULL
strchr(s, ch) ==
    IF \E i \in 1..Len(s) : s[i] = ch
    THEN CHOOSE i \in 1..Len(s) :
             s[i] = ch /\ \A j \in 1..(i - 1) : s[j] # ch
    ELSE 0

\* the strcmp chain of this reader
LineKeyword(cmd) ==
    IF cmd = KwDelay THEN "DELAY"
    ELSE IF Keyword(cmd) \in { "PEN_DOWN", "PEN_MOVE", "PEN_UP" }
    THEN Keyword(cmd) ELSE "OTHER"

\* the events one line appends
LineEvents(cmd) ==
    CASE cmd.op = "PEN_DOWN" ->
            << make_event(EV_KEY, BTN_TOOL_PEN, 1),
               make_event(EV_KEY, BTN_TOUCH, 1),
               make_event(EV_ABS, ABS_X, to_wacom_x(cmd.x, cmd.y)),
               make_event(EV_ABS, ABS_Y, to_wacom_y(cmd.x, cmd.y)),
               make_event(EV_ABS, ABS_PRESSURE, PRESSURE),
               make_event(EV_SYN, SYN_REPORT, 0) >>
      [] cmd.op = "PEN_MOVE" ->
            << make_event(EV_ABS, ABS_X, to_wacom_x(cmd.x, cmd.y)),
               make_event(EV_ABS, ABS_Y, to_wacom_y(cmd.x, cmd.y)),
               make_event(EV_ABS, ABS_PRESSURE, PRESSURE),
               make_event(EV_SYN, SYN_REPORT, 0) >>
      [] cmd.op = "PEN_UP" ->
            << make_event(EV_KEY, BTN_TOUCH, 0),
               make_event(EV_KEY, BTN_TOOL_PEN, 0),
               make_event(EV_SYN, SYN_REPORT, 0) >>
      [] OTHER -> << >>

\* wx < 0 || wx > WACOM_MAX_X || wy < 0 || wy > WACOM_MAX_Y
out_of_bounds(wx, wy) ==
    wx < 0 \/ wx > WACOM_HW_X_MAX \/ wy < 0 \/ wy > WACOM_HW_Y_MAX

\* mutant: an unfinished line that does not fit is cut to the buffer
save_leftover_cut(line) ==
    IF Len(line) < LeftoverSize THEN line
    ELSE SubSeq(line, 1, LeftoverSize - 1)

\* what `leftover' holds after the unfinished line was looked at; it was
\* emptied when `combined' was built
save_leftover(line) ==
    IF Len(line) > 0 /\ Len(line) < LeftoverSize THEN line ELSE << >>

\* delay_ms > 0 && delay_ms <= 1000
obeys_delay(delay_ms) == delay_ms > 0 /\ delay_ms <= DelayCapMs

\* read() on the FIFO returns the bytes buf; leftover and buf are joined
\* and leftover is emptied; at most `most' chunks are delivered in one run
FifoRead(c, buf, most) ==
    /\ chan[c].pc = "read"
    /\ cmds < most
    /\ cmds' = cmds + 1
    /\ chan' = [chan EXCEPT ![c] =
           [@ EXCEPT !.pc = "line",
                     !.combined = chan[c].leftover \o buf,
                     !.leftover = << >>,
                     !.fed = Append(@, buf)]]
    /\ UNCHANGED << queueVars, hostSide, last_injection_time,
                    suppress_input, now, drops, histVars, ticks >>

\* the line up to the next newline is a PEN_DOWN or a PEN_MOVE with an
\* argument whose product with the raw range does not fit an int
LineOverflows(ch) ==
    LET nl == strchr(ch.combined, "\n")
        line == SubSeq(ch.combined, 1, nl - 1)
        s == sscanf(line, 0)
    IN  /\ line # << >>
        /\ line[1] # "#"
        /\ s.n >= 1
        /\ LineKeyword(s.cmd) \in { "PEN_DOWN", "PEN_MOVE" }
        /\ ~(fits_int(s.y, WACOM_HW_X_MAX) /\ fits_int(s.x, WACOM_HW_Y_MAX))

\* what one pass of the loop over the lines makes of the reader's locals:
\* the line up to the next newline is cut off; a comment or an empty line
\* is skipped; otherwise sscanf, with x and y starting at 0, and the
\* strcmp chain
AfterLine(ch, clock) ==
    LET nl == strchr(ch.combined, "\n")
        line == SubSeq(ch.combined, 1, nl - 1)
        next == [ch EXCEPT !.combined = SubSeq(@, nl + 1, Len(@))]
        s == sscanf(line, 0)
        kw == LineKeyword(s.cmd)
        cmd == [op |-> kw, x |-> s.x, y |-> s.y]
    IN  IF line = << >> \/ line[1] = "#" THEN next
        ELSE IF s.n < 1 \/ kw = "OTHER" THEN next
        ELSE IF kw = "DELAY"
        THEN IF obeys_delay(s.x)
             THEN [next EXCEPT !.pc = "sleep",
                               !.op = kw,
                               !.ran = Append(@, kw),
                               !.wake = Us(clock) + s.x * UsPerMs]
             ELSE [next EXCEPT !.op = kw, !.ran = Append(@, kw)]
        ELSE [next EXCEPT !.pc = "put",
                          !.op = kw,
                          !.ran = Append(@, kw),
                          \* only the PEN_DOWN branch validates, and it
                          \* only warns
                          !.warns = IF /\ kw = "PEN_DOWN"
                                       /\ out_of_bounds(
                                              to_wacom_x(s.x, s.y),
                                              to_wacom_y(s.x, s.y))
                                    THEN @ + 1 ELSE @,
                          !.pending = LineEvents(cmd)]

\* one pass of  while ((next_line = strchr(line, '\n')) != NULL)
ProcessLine(c) ==
    /\ chan[c].pc = "line"
    /\ strchr(chan[c].combined, "\n") # 0
    /\ \E outcome \in IF LineOverflows(chan[c])
                      THEN SignedOverflow ELSE { "wraps" } :
          chan' = [chan EXCEPT ![c] =
              IF outcome = "stopped"
              THEN [@ EXCEPT !.pc = "stopped", !.overflowed = TRUE]
              ELSE [AfterLine(@, now) EXCEPT
                       !.overflowed = @ \/ LineOverflows(chan[c])]]
    /\ UNCHANGED << queueVars, hostSide, last_injection_time,
                    suppress_input, now, drops, histVars, cmds, ticks >>

\* one enqueue() call of the line
PutEvent(c) ==
    /\ chan[c].pc = "put"
    /\ LET ev == Head(chan[c].pending)
           rest == Tail(chan[c].pending)
           e == enqueue(Ring, ev)
       IN  /\ queue' = e.Q.queue
           /\ q_head' = e.Q.q_head
           /\ q_tail' = e.Q.q_tail
           /\ accepted' = IF e.stored THEN Append(accepted, ev) ELSE accepted
           /\ drops' = IF e.stored THEN drops ELSE drops + 1
           /\ chan' = [chan EXCEPT ![c] =
                  [@ EXCEPT !.pending = rest,
                            !.held_io = @ \/ e.warned_locked,
                            !.pc = IF rest # << >> THEN "put" ELSE "line"]]
           /\ host' = IF e.stored THEN Disturb(host, "fifo", FALSE) ELSE host
    /\ UNCHANGED << wacom_fd, original_read, penVars, started, reads,
                    last_injection_time, suppress_input, now, dequeued,
                    lastMark, lastDown, cmds, ticks >>

\* mutant: usleep returns at once
Wake_at_once(c) ==
    /\ chan[c].pc = "sleep"
    /\ chan' = [chan EXCEPT ![c].pc = "line"]
    /\ UNCHANGED << queueVars, hostSide, last_injection_time,
                    suppress_input, now, drops, histVars, cmds, ticks >>

\* usleep(delay_ms * 1000) returns
Wake(c) ==
    /\ chan[c].pc = "sleep"
    /\ Us(now) >= chan[c].wake
    /\ chan' = [chan EXCEPT ![c].pc = "line"]
    /\ UNCHANGED << queueVars, hostSide, last_injection_time,
                    suppress_input, now, drops, histVars, cmds, ticks >>

\* no newline is left: the unfinished line is saved, or not, and the
\* reader goes back to read()
SaveLeftover(c) ==
    /\ chan[c].pc = "line"
    /\ strchr(chan[c].combined, "\n") = 0
    /\ chan' = [chan EXCEPT ![c] =
           [@ EXCEPT !.pc = "read",
                     !.leftover = save_leftover(chan[c].combined),
                     !.combined = << >>]]
    /\ UNCHANGED << queueVars, hostSide, last_injection_time,
                    suppress_input, now, drops, histVars, cmds, ticks >>

(***************************************************************************)
(* The clock                                                               *)
(***************************************************************************)
Tick(d) ==
    /\ ticks < MaxTicks
    /\ ticks' = ticks + 1
    /\ now' = TimeAfter(now, d)
    /\ UNCHANGED << queueVars, hostSide, last_injection_time,
                    suppress_input, chan, drops, histVars, cmds >>

(***************************************************************************)
(* Specifications                                                          *)
(*                                                                         *)
(* The steps of the host threads in H reading the handles in F with the    *)
(* request sizes in K, and the steps of the FIFO readers executing the     *)
(* commands in C.                                                          *)
(***************************************************************************)
ReadSteps(H, F, K) ==
    \/ \E t \in H, fd \in F, count \in K : Call(t, fd, count)
    \/ \E t \in H :
          \E result \in RealResults(host[t].fd, host[t].count) :
              RealReturn(t, result)

FifoSteps ==
    \/ \E c \in Chans : Open(c)
    \/ \E c \in Chans : OpenFail(c)
    \/ \E c \in Chans : ReadEof(c)

\* the steps of a command that was picked
UnitSteps ==
    \/ \E c \in Chans : Enqueue(c)
    \/ \E c \in Chans : StampSec(c)
    \/ \E c \in Chans : StampNsec(c)
    \/ \E c \in Chans : SetSuppress(c)

CommandSteps(C) ==
    \/ \E c \in Chans, cmd \in C : ReadCommand(c, cmd)
    \/ UnitSteps

\* Injection: the digitizer is detected; two host threads read it while
\* the FIFO delivers commands; the clock stands still.
InjectCommands ==
    { cmd \in Commands : cmd.x = 0 }

Next ==
    \/ ReadSteps(Hosts, { FdWacom }, Counts)
    \/ \E t \in Hosts : Drain(t)
    \/ FifoSteps
    \/ CommandSteps(InjectCommands)

InitInject == InitDetected /\ now = [tv_sec |-> 1, tv_nsec |-> 0]

Spec == InitInject /\ [][Next]_vars

\* Detection: the library is freshly loaded; two host threads read every
\* kind of handle; no command arrives on the FIFO.
NextDetect ==
    \/ ReadSteps(Hosts, Fds, { 16 })
    \/ \E t \in Hosts : Claim(t)
    \/ \E t \in Hosts : HasEvents(t)
    \/ FifoSteps

InitDetect == Init /\ now = [tv_sec |-> 1, tv_nsec |-> 0]

SpecDetect == InitDetect /\ [][NextDetect]_vars

\* Suppression: the digitizer is detected; one host thread reads it while
\* pen commands arrive and the clock advances.
PenCommands ==
    { cmd \in Commands : cmd.op \in { "PEN_DOWN", "PEN_UP" } /\ cmd.x = 0 }

NextSuppress ==
    \/ ReadSteps({ "h1" }, { FdWacom }, { 64 })
    \/ Drain("h1")
    \/ Clear("h1")
    \/ FifoSteps
    \/ CommandSteps(PenCommands)
    \/ \E d \in TickSteps : Tick(d)

SpecSuppress == InitDetected /\ [][NextSuppress]_vars

\* Delivery: one host thread keeps calling read() and its real reads
\* return, while pen commands arrive; the clock stands still, so that
\* after a PEN_DOWN suppress_input stays set.
HostSteps ==
    \/ ReadSteps({ "h1" }, { FdWacom }, { 64 })
    \/ Recall("h1", FdWacom, 64)
    \/ Drain("h1")

NextDeliver ==
    \/ HostSteps
    \/ FifoSteps
    \/ CommandSteps(PenCommands)

HostKeepsReading == WF_vars(HostSteps)

SpecDeliver == InitInject /\ [][NextDeliver]_vars /\ HostKeepsReading

\* The command channel: the digitizer is detected; the FIFO delivers a
\* chunk of text, well formed or not, while one host thread reads the
\* digitizer; the clock stands still.
NextChannel ==
    \/ ReadSteps({ "h1" }, { FdWacom }, { 64 })
    \/ Drain("h1")
    \/ FifoSteps
    \/ \E c \in Chans, buf \in Chunks : ReadChunk(c, buf, MaxCmds)
    \/ UnitSteps

SpecChannel == InitDetected /\ [][NextChannel]_vars

\* The transport: the digitizer is detected; the FIFO delivers chunk after
\* chunk and no host thread reads.
NextFeed ==
    \/ FifoSteps
    \/ \E c \in Chans, buf \in Chunks : ReadChunk(c, buf, MaxChunks)
    \/ UnitSteps

SpecFeed == InitDetected /\ [][NextFeed]_vars

\* The same with the scheduling the reader relies on: the thread is not
\* starved while it executes a command, and an open() repeated every
\* second succeeds in the end.
FeedFairness ==
    /\ WF_vars(UnitSteps)
    /\ WF_vars(\E c \in Chans : Open(c))

SpecFeedLive == InitDetected /\ [][NextFeed]_vars /\ FeedFairness

\* The steps of a chunk that fifo_reader of src/Rm2/src/inject.c has read
LineSteps ==
    \/ \E c \in Chans : ProcessLine(c)
    \/ \E c \in Chans : PutEvent(c)
    \/ \E c \in Chans : SaveLeftover(c)

\* Lines: that reader alone, fed two chunks
NextLines ==
    \/ FifoSteps
    \/ \E c \in Chans, buf \in LineChunks : FifoRead(c, buf, MaxChunks)
    \/ LineSteps

SpecLines == InitDetected /\ [][NextLines]_vars

\* Delay: that reader is fed a chunk with a DELAY while one host thread
\* reads the digitizer and the clock advances
NextDelay ==
    \/ ReadSteps({ "h1" }, { FdWacom }, { 64 })
    \/ Drain("h1")
    \/ FifoSteps
    \/ \E c \in Chans, buf \in DelayChunks : FifoRead(c, buf, MaxCmds)
    \/ LineSteps
    \/ \E c \in Chans : Wake(c)
    \/ \E d \in TickSteps : Tick(d)

SpecDelay == InitInject /\ [][NextDelay]_vars

\* Stamping: the digitizer is detected; one host thread reads it while two
\* commands that stamp last_injection_time arrive; the clock stands still.
StampChunks == { TxtDownCorner, TxtUp }

NextStamp ==
    \/ ReadSteps({ "h1" }, { FdWacom }, { 64 })
    \/ Drain("h1")
    \/ FifoSteps
    \/ \E c \in Chans, buf \in StampChunks : ReadChunk(c, buf, MaxStamps)
    \/ UnitSteps

SpecStamp == InitInject /\ [][NextStamp]_vars

\* The header mapper: a caller maps one display point and clamps the
\* result, twice.  The points are all those of the middle row and the
\* middle column of the display, of its four edges, and some outside.
MapPoints ==
    { << x, y >> : x \in 0..DISPLAY_WIDTH,
                   y \in { 0, DISPLAY_HEIGHT \div 2, DISPLAY_HEIGHT } }
    \cup { << x, y >> : x \in { 0, DISPLAY_WIDTH \div 2, DISPLAY_WIDTH },
                        y \in 0..DISPLAY_HEIGHT }
    \cup { << x, y >> : x \in { -5, DISPLAY_WIDTH + 96 },
                        y \in { -1, DISPLAY_HEIGHT + 128 } }

InitMap ==
    /\ queue = [i \in 0..(MAX_QUEUE - 1) |-> ZeroEvent]
    /\ q_head = 0
    /\ q_tail = 0
    /\ wacom_fd = NoFd
    /\ original_read = FALSE
    /\ last_pen_x = 0
    /\ last_pen_y = 0
    /\ last_injection_time = [tv_sec |-> 0, tv_nsec |-> 0]
    /\ suppress_input = 0
    /\ now = [tv_sec |-> 1, tv_nsec |-> 0]
    /\ host = [t \in Hosts |-> IdleHost]
    /\ \E p \in MapPoints :
          chan = [c \in Chans |->
                     IF c = 1
                     THEN [IdleChan EXCEPT !.pc = "map", !.point = p]
                     ELSE IdleChan]
    /\ started = 0
    /\ drops = 0
    /\ accepted = << >>
    /\ dequeued = << >>
    /\ lastMark = -1
    /\ lastDown = -1
    /\ cmds = 0
    /\ reads = 0
    /\ ticks = 0

\* display_to_wacom_x(x, y) and display_to_wacom_y(x, y)
MapPoint(c) ==
    /\ chan[c].pc = "map"
    /\ LET x == chan[c].point[1]
           y == chan[c].point[2]
       IN  chan' = [chan EXCEPT ![c] =
               [@ EXCEPT !.pc = "clamp",
                         !.raw = << usable_to_wacom_x(x, y),
                                    usable_to_wacom_y(x, y) >>,
                         !.clamped = << usable_to_wacom_x(x, y),
                                        usable_to_wacom_y(x, y) >>]]
    /\ UNCHANGED << queueVars, hostSide, last_injection_time,
                    suppress_input, now, drops, histVars, cmds, ticks >>

\* clamp_wacom_x and clamp_wacom_y, applied to the value at hand
ClampRaw(c) ==
    /\ chan[c].pc \in { "clamp", "clamp_again" }
    /\ chan' = [chan EXCEPT ![c] =
           [@ EXCEPT !.pc = IF @ = "clamp" THEN "clamp_again" ELSE "mapped",
                     !.clamped = << clamp_wacom_x(@[1]),
                                    clamp_wacom_y(@[2]) >>]]
    /\ UNCHANGED << queueVars, hostSide, last_injection_time,
                    suppress_input, now, drops, histVars, cmds, ticks >>

NextMap ==
    \/ \E c \in Chans : MapPoint(c)
    \/ \E c \in Chans : ClampRaw(c)

SpecMap == InitMap /\ [][NextMap]_vars

\* Long keywords: the FIFO delivers chunks whose first word fills cmd or
\* is longer; no host thread reads.
NextLong ==
    \/ FifoSteps
    \/ \E c \in Chans, buf \in LongChunks : ReadChunk(c, buf, MaxChunks)
    \/ UnitSteps

SpecLong == InitDetected /\ [][NextLong]_vars

\* Other handles: the library is freshly loaded; two host threads read
\* the digitizer, a second handle of it and the touch screen while a
\* PEN_UP arrives; the clock stands still.
ForeignFds == { FdWacom, FdWacom2, FdTouch }

ForeignCommands == { cmd \in PenCommands : cmd.op = "PEN_UP" }

\* the real read delivers one record, or all the bytes asked for
ForeignResults(fd, count) ==
    { r \in RealResults(fd, count) : r \in { RecordSize, count } }

NextForeign ==
    \/ \E t \in Hosts, fd \in ForeignFds : Call(t, fd, 64)
    \/ \E t \in Hosts :
          \E result \in ForeignResults(host[t].fd, host[t].count) :
              RealReturn(t, result)
    \/ \E t \in Hosts : Claim(t)
    \/ \E t \in Hosts : HasEvents(t)
    \/ \E t \in Hosts : Drain(t)
    \/ \E c \in Chans : Open(c)
    \/ \E c \in Chans, cmd \in ForeignCommands : ReadCommand(c, cmd)
    \/ \E c \in Chans : Enqueue(c)
    \/ \E c \in Chans : StampSec(c)
    \/ \E c \in Chans : StampNsec(c)

SpecForeign == InitDetect /\ [][NextForeign]_vars

\* The race on the suppression mark: one host thread reads the digitizer,
\* each real read returning one record, while PEN_DOWN arrives twice and
\* the clock advances.
RaceChunks == { TxtDownCorner }

\* clock advances, in nanoseconds: one millisecond more than the window
RaceTicks == { (SUPPRESSION_MS + 1) * NsPerMs }

\* the genuine read that decides from the older timestamp, the read that
\* drains the ring, and the genuine read that follows the newer mark
RaceReads == 3

RaceCall(t, fd, count) ==
    /\ reads < RaceReads
    /\ reads' = reads + 1
    /\ Enter(t, fd, count)

NextRace ==
    \/ RaceCall("h1", FdWacom, 64)
    \/ RealReturn("h1", RecordSize)
    \/ Drain("h1")
    \/ Clear("h1")
    \/ \E c \in Chans : Open(c)
    \/ \E c \in Chans, buf \in RaceChunks : ReadChunk(c, buf, MaxStamps)
    \/ UnitSteps
    \/ \E d \in RaceTicks : Tick(d)

SpecRace == InitInject /\ [][NextRace]_vars

(***************************************************************************)
(* Properties of the event ring                                            *)
(***************************************************************************)
\* events stored and not yet handed out
Held == Len(accepted) - Len(dequeued)

\* C1: FIFO law.  The events handed out by dequeue, in the order in which
\* the host threads received them, followed by the events still in the
\* ring from head to tail, are exactly the events enqueue accepted, in the
\* order of acceptance; also when head and tail have wrapped and when two
\* host threads take turns draining.
C1_FifoLaw == accepted = dequeued \o QContents

\* both host threads have drained events and the ring has wrapped
C1_Witness ==
    /\ \A t \in Hosts : host[t].injected > 0
    /\ q_tail < q_head
    /\ Len(accepted) > MAX_QUEUE

\* C2: the number of events held never exceeds the capacity, whatever the
\* burst, and equals the distance from head to tail; a FIFO reader that is
\* about to enqueue can always take its step, full ring or not.
C2_Bounded ==
    /\ Held <= MAX_QUEUE
    /\ Held = QLen
    /\ \A c \in Chans : chan[c].pc = "enq" => ENABLED Enqueue(c)

\* the ring is full, one event was dropped and the reader is about to
\* enqueue the next one
C2_Witness ==
    /\ QLen = MAX_QUEUE - 1
    /\ drops = 1
    /\ \E c \in Chans : chan[c].pc = "enq"

\* C3: an enqueue that drops its event (the "Queue full" warning) leaves
\* queue, q_head and q_tail exactly as they were, accepts nothing, and the
\* FIFO reader goes on with the next event of the command.
C3_DropKeepsQueue ==
    [][ \A c \in Chans :
          (chan[c].pc = "enq" /\ chan'[c] # chan[c] /\ drops' # drops) =>
             /\ queue' = queue
             /\ q_head' = q_head
             /\ q_tail' = q_tail
             /\ accepted' = accepted
             /\ drops' = drops + 1
             /\ chan'[c].pending = Tail(chan[c].pending)
             /\ chan'[c].pc \in { "enq", "ts_sec", "read" }
      ]_vars

\* two events in a row were dropped and the reader is at the third
C3_Witness ==
    /\ drops = 2
    /\ QLen = MAX_QUEUE - 1
    /\ \E c \in Chans : chan[c].pc = "enq"

\* C4: the ring holds N = MAX_QUEUE events: with no dequeue in between, no
\* event is dropped before N events were accepted.
C4_CapacityN ==
    (drops > 0 /\ dequeued = << >>) => Len(accepted) >= MAX_QUEUE

\* what the ring does hold: a burst is dropped from the event number
\* MAX_QUEUE on
C4_CapacityNMinusOne ==
    /\ Held <= MAX_QUEUE - 1
    /\ (drops > 0 /\ dequeued = << >>) => Len(accepted) = MAX_QUEUE - 1

(***************************************************************************)
(* Properties of a drain                                                   *)
(***************************************************************************)
Returned(t, path) == host[t].pc = "done" /\ host[t].path = path

\* idx names increasing positions of `accepted', and buf holds the events
\* at these positions
InFifoOrder(h) ==
    /\ Len(h.idx) = Len(h.buf)
    /\ \A i \in 1..Len(h.buf) :
          /\ h.idx[i] \in 1..Len(accepted)
          /\ h.buf[i] = accepted[h.idx[i]]
          /\ i > 1 => h.idx[i - 1] < h.idx[i]

\* C9 as claimed: a synthetic drain copies min(queue length, requestedCount
\* / recordSize) events, the queue length being the one its has_events()
\* check saw, and returns that number times the record size.
C9_DrainCopiesMin ==
    \A t \in Hosts :
        Returned(t, "synthetic") =>
            /\ Len(host[t].buf) = Min(host[t].len0, host[t].count \div RecordSize)
            /\ host[t].ret = Len(host[t].buf) * RecordSize

\* C9, amended: a synthetic drain returns the number of events it copied
\* times the record size: at least one record, a whole multiple of the
\* record size, never more than requestedCount; the events in the caller's
\* buffer are accepted events in FIFO order; and when no other thread used
\* the ring during the drain they are the min(queue length, requestedCount
\* / recordSize) oldest ones, consecutive.
C9_Drain ==
    \A t \in Hosts :
        Returned(t, "synthetic") =>
            LET h == host[t]
                n == Len(h.buf)
            IN  /\ h.ret = n * RecordSize
                /\ n >= 1
                /\ h.ret % RecordSize = 0
                /\ h.ret <= h.count
                /\ InFifoOrder(h)
                /\ ~h.mix =>
                      /\ n = Min(h.len0, h.count \div RecordSize)
                      /\ \A i \in 1..n : h.idx[i] = h.idx[1] + i - 1

\* a partial drain nobody disturbed: more events were queued than fit
C9_Witness ==
    \E t \in Hosts :
        /\ Returned(t, "synthetic")
        /\ ~host[t].mix
        /\ host[t].len0 > host[t].count \div RecordSize
        /\ Len(host[t].buf) = 2

\* a drain that copied more events than its has_events() check saw
C9_Disturbed ==
    \E t \in Hosts :
        /\ Returned(t, "synthetic")
        /\ host[t].mix
        /\ Len(host[t].buf) > host[t].len0

\* C10 as claimed: a read of the target invoked while the queue is not
\* empty returns queued events and does not invoke the real read.
C10_NeverReal ==
    \A t \in Hosts :
        host[t].saw => /\ host[t].pc # "real"
                       /\ host[t].pc = "done" => host[t].path = "synthetic"

\* C10, amended: a read of the target whose has_events() check finds the
\* queue not empty returns queued events without invoking the real read,
\* provided the request has room for one record and no other thread
\* dequeues before its own first dequeue; it invokes the real read only
\* when the request is smaller than one record or it was robbed.
C10_DrainsWin ==
    \A t \in Hosts :
        LET h == host[t]
        IN  /\ (h.saw /\ h.count >= RecordSize /\ ~h.robbed) =>
                  \/ h.pc = "drain"
                  \/ Returned(t, "synthetic") /\ h.ret > 0 /\ h.hw = << >>
            /\ (h.saw /\ h.pc = "real") =>
                  \/ h.count < RecordSize
                  \/ h.robbed /\ h.injected = 0

\* a read found the queue not empty and returned queued events
C10_Witness ==
    \E t \in Hosts :
        /\ host[t].saw
        /\ ~host[t].robbed
        /\ Returned(t, "synthetic")
        /\ host[t].ret = RecordSize

\* a read that saw events was robbed of them and is in the real read
C10_Robbed ==
    \E t \in Hosts : host[t].saw /\ host[t].robbed /\ host[t].pc = "real"

(***************************************************************************)
(* Properties of the suppression window                                    *)
(***************************************************************************)
\* C5: a genuine read of the target (the real read returned more than zero
\* bytes) that follows a PEN_DOWN within the quiet window returns 0; one
\* that completes more than the quiet window after the last timestamp
\* returns the real read's byte count and buffer.
C5_QuietWindow ==
    \A t \in Hosts :
        (host[t].pc = "done" /\ host[t].onTarget /\ host[t].result > 0) =>
            /\ host[t].inWindow => host[t].ret = 0
            /\ host[t].pastWindow =>
                  /\ host[t].ret = host[t].result
                  /\ host[t].buf = host[t].hw

\* a genuine read that followed a PEN_DOWN at once was discarded
C5_Discarded ==
    \E t \in Hosts :
        /\ Returned(t, "discarded")
        /\ host[t].inWindow
        /\ host[t].ret = 0

\* a genuine read long after the last timestamp was passed through
C5_Passed ==
    \E t \in Hosts :
        /\ Returned(t, "real")
        /\ host[t].pastWindow
        /\ host[t].ret = host[t].result
        /\ host[t].result > 0

(***************************************************************************)
(* Properties of the detection                                             *)
(***************************************************************************)
\* C6: no FIFO reader is started before the target is resolved and exactly
\* one is started from then on.
C6_OneReader == started = IF wacom_fd = NoFd THEN 0 ELSE 1

\* C7: once wacom_fd holds a handle, no step changes it.
C7_SetOnce == [][wacom_fd # NoFd => wacom_fd' = wacom_fd]_vars

\* the link names a node under the input-device prefix
UnderInputPrefix(link) ==
    /\ link # Failed
    /\ Len(link) >= Len(InputPrefix)
    /\ SubSeq(link, 1, Len(InputPrefix)) = InputPrefix

\* the name holds the digitizer word
NamesWacom(name) ==
    /\ name # Failed
    /\ \E i \in 1..Len(name) :
          /\ i + 4 <= Len(name)
          /\ << name[i], name[i + 1], name[i + 2], name[i + 3], name[i + 4] >>
                = << "W", "a", "c", "o", "m" >>

\* C8: the handle in wacom_fd, and the handle of every call that is about
\* to adopt its handle, has a path under the input-device prefix and a name
\* holding "Wacom"; classification answers true for exactly those handles,
\* so a failed path or name query answers false.
C8_OnlyDigitizer ==
    /\ wacom_fd # NoFd =>
          UnderInputPrefix(FdLink(wacom_fd)) /\ NamesWacom(FdName(wacom_fd))
    /\ \A t \in Hosts :
          host[t].pc = "claim" =>
              UnderInputPrefix(FdLink(host[t].fd))
                  /\ NamesWacom(FdName(host[t].fd))
    /\ \A fd \in Fds :
          is_wacom(fd) <=>
              UnderInputPrefix(FdLink(fd)) /\ NamesWacom(FdName(fd))

\* a read of the touchscreen, whose path matches and whose name does not,
\* has gone through classification and returned; nothing is adopted
C8_Witness ==
    /\ wacom_fd = NoFd
    /\ \E t \in Hosts : host[t].pc = "done" /\ host[t].fd = FdTouch

(***************************************************************************)
(* Properties of a gesture unit                                            *)
(***************************************************************************)
\* the number of events of a command
UnitLen(op) == Len(CommandEvents([op |-> op, x |-> 0, y |-> 0]))

\* FIFO reader c has handed some, not all, events of its command to
\* enqueue, and what the ring holds is a part of that command only
MidUnit(c) ==
    /\ chan[c].pc = "enq"
    /\ Len(chan[c].pending) < UnitLen(chan[c].op)
    /\ QLen > 0
    /\ QLen <= UnitLen(chan[c].op) - Len(chan[c].pending)

\* C11: while a FIFO reader is in the middle of a command, no host read
\* finds the ring not empty at its has_events() check, and none takes an
\* event out of it.
C11_AtomicUnit ==
    [][ (\E c \in Chans : MidUnit(c)) =>
            /\ dequeued' = dequeued
            /\ \A t \in Hosts :
                  (reads' # reads /\ host'[t] # host[t]) => ~host'[t].saw
      ]_vars

(***************************************************************************)
(* Properties of the command channel                                       *)
(***************************************************************************)
\* the chunk a FIFO reader read last
LastFed(ch) == ch.fed[Len(ch.fed)]

\* lines with an unknown keyword, a non-decimal argument, a missing argument
Malformed == { TxtUnknown, TxtDownAbc, TxtDownOneArg }

\* C12: from the step that reads a malformed line until the next line is
\* read, no step changes the ring, the accepted events, the suppression
\* flag or the injection timestamp, and the FIFO reader is back at its
\* read() (or reopening the FIFO), ready for the next line.
C12_MalformedSkipped ==
    [][ \A c \in Chans :
          (chan'[c].fed # << >> /\ LastFed(chan'[c]) \in Malformed) =>
             /\ UNCHANGED << queue, q_head, q_tail, accepted, drops >>
             /\ UNCHANGED << suppress_input, last_injection_time >>
             /\ chan'[c].pc \in { "read", "open" }
      ]_vars

\* the events of PEN_DOWN 10 20
SplitLineEvents == CommandEvents([op |-> "PEN_DOWN", x |-> 10, y |-> 20])

\* C13: the fragment "PEN_DO" alone executes nothing, and once the rest of
\* the line, "WN 10 20\n", has arrived in the next read() the command
\* PEN_DOWN 10 20 is executed exactly once: its six events were handed to
\* enqueue, in order.
C13_Reassembled ==
    \A c \in Chans :
        /\ chan[c].fed = << TxtSplitHead >> =>
              accepted = << >> /\ drops = 0 /\ chan[c].pc \in { "read", "open" }
        /\ (chan[c].fed = << TxtSplitHead, TxtSplitTail >>
                /\ chan[c].pc \in { "read", "open" }) =>
              /\ Len(accepted) + drops = Len(SplitLineEvents)
              /\ accepted = SubSeq(SplitLineEvents, 1, Len(accepted))

\* FIFO reader c picks the branch of the keyword op in this step
Picks(c, op) ==
    /\ chan[c].pc = "read"
    /\ chan'[c].pc = "enq"
    /\ chan'[c].op = op

\* FIFO reader c has handed every event of the line it read last to
\* enqueue, and none was dropped
Appended(c, txt) ==
    /\ chan[c].fed # << >>
    /\ LastFed(chan[c]) = txt
    /\ chan[c].pc # "enq"
    /\ drops = 0

\* the last n events accepted
LastAccepted(n) == SubSeq(accepted, Len(accepted) - n + 1, Len(accepted))

\* type and code of each event of a sequence
Shape(events) == [i \in 1..Len(events) |-> << events[i].type, events[i].code >>]

\* what PEN_MOVE 1404 1872 appends
MoveCornerEvents ==
    << [type |-> EV_ABS, code |-> ABS_X, value |-> 20967],
       [type |-> EV_ABS, code |-> ABS_Y, value |-> 15725],
       [type |-> EV_ABS, code |-> ABS_PRESSURE, value |-> 2000],
       [type |-> EV_SYN, code |-> SYN_REPORT, value |-> 0] >>

DownCornerEvents ==
    << [type |-> EV_KEY, code |-> BTN_TOOL_PEN, value |-> 1],
       [type |-> EV_KEY, code |-> BTN_TOUCH, value |-> 1],
       [type |-> EV_ABS, code |-> ABS_X, value |-> 20967],
       [type |-> EV_ABS, code |-> ABS_Y, value |-> 15725],
       [type |-> EV_ABS, code |-> ABS_PRESSURE, value |-> 2000],
       [type |-> EV_SYN, code |-> SYN_REPORT, value |-> 0] >>

UpEvents ==
    << [type |-> EV_KEY, code |-> BTN_TOUCH, value |-> 0],
       [type |-> EV_KEY, code |-> BTN_TOOL_PEN, value |-> 0],
       [type |-> EV_SYN, code |-> SYN_REPORT, value |-> 0] >>

\* C21: PEN_UP hands three events to enqueue: BTN_TOUCH = 0, BTN_TOOL_PEN
\* = 0, SYN_REPORT, in this order and no axis event, whatever arguments
\* stand on the line (none, or `7 9'); when nothing is dropped these three
\* are what the ring accepted last.
C21_UpThreeEvents ==
    /\ [](\A c \in Chans :
            (Appended(c, TxtUp) \/ Appended(c, TxtUpArgs)) =>
               /\ Len(accepted) >= Len(UpEvents)
               /\ LastAccepted(Len(UpEvents)) = UpEvents)
    /\ [][ \A c \in Chans :
             Picks(c, "PEN_UP") =>
                /\ LastFed(chan'[c]) \in { TxtUp, TxtUpArgs }
                /\ chan'[c].pending = UpEvents
         ]_vars

\* PEN_UP 7 9 went through the ring whole and the host drained it
C21_Witness ==
    /\ \E c \in Chans : Appended(c, TxtUpArgs)
    /\ accepted = UpEvents
    /\ dequeued = UpEvents

(***************************************************************************)
(* Properties of the suppression state machine                             *)
(***************************************************************************)
\* FIFO reader c takes the last step of a PEN_DOWN or a PEN_UP
Completes(c) ==
    /\ chan[c].op \in { "PEN_DOWN", "PEN_UP" }
    /\ chan[c].pc \in { "ts_nsec", "flag" }
    /\ chan'[c].pc = "read"

\* C14: when a FIFO reader has processed a PEN_DOWN or a PEN_UP the
\* controller is Suppressing (suppress_input is set) and the injection
\* timestamp is the clock value the command read, whatever the state was
\* before.
C14_MarksSuppressing ==
    [][ \A c \in Chans :
          Completes(c) =>
             /\ suppress_input' = 1
             /\ last_injection_time' = chan[c].ts
      ]_vars

\* microseconds since the injection timestamp
ElapsedUs == Us(now) - Us(last_injection_time)

\* C15: a genuine read of the target with a positive result, completing
\* while no timestamp is being written: in Quiet it passes through; in
\* Suppressing it goes on to Quiet and passes through when more than the
\* window has elapsed, and returns 0 and stays Suppressing otherwise.
\* Nothing else leaves Suppressing.
C15_LazyQuiet ==
    [][ /\ \A t \in Hosts :
            (/\ host[t].pc = "real"
             /\ host'[t].pc # "real"
             /\ host'[t].onTarget
             /\ host'[t].result > 0
             /\ ~Stamping) =>
                IF suppress_input = 0
                THEN /\ Returned(t, "real")'
                     /\ host'[t].ret = host'[t].result
                     /\ host'[t].buf = host'[t].hw
                ELSE IF ElapsedUs > WindowUs
                THEN host'[t].pc = "clear"
                ELSE /\ Returned(t, "discarded")'
                     /\ host'[t].ret = 0
                     /\ suppress_input' = 1
        /\ \A t \in Hosts :
            host[t].pc = "clear" =>
                (host'[t] # host[t] =>
                    /\ suppress_input' = 0
                    /\ host'[t].ret = host[t].result
                    /\ host'[t].buf = host[t].hw)
        /\ (suppress_input = 1 /\ suppress_input' = 0) =>
                \E t \in Hosts : host[t].pc = "clear" /\ host'[t].pc = "done"
      ]_vars

\* C17: the step in which a genuine sample is discarded changes neither the
\* ring nor the histories of accepted and dequeued events; and a read of
\* the target entered while suppress_input is set and the ring is not empty
\* goes to the drain, not to the real read, and hands queued events out.
C17_DiscardKeepsQueue ==
    /\ [](\A t \in Hosts :
            (host[t].saw /\ host[t].pc = "done") =>
                 /\ host[t].path = "synthetic"
                 /\ host[t].ret > 0
                 /\ host[t].hw = << >>)
    /\ [][ \A t \in Hosts :
             /\ (host[t].pc = "real" /\ Returned(t, "discarded")') =>
                   UNCHANGED << queue, q_head, q_tail, accepted, dequeued >>
             /\ (/\ reads' = reads + 1
                 /\ host'[t] # host[t]
                 /\ suppress_input # 0
                 /\ QLen > 0) =>
                   host'[t].pc = "drain"
         ]_vars

\* a genuine sample was discarded while the ring held events
C17_Witness ==
    \E t \in Hosts :
        /\ Returned(t, "discarded")
        /\ QLen > 0
        /\ suppress_input = 1

\* a read entered in Suppressing returned queued events
C17_Drained ==
    \E t \in Hosts :
        /\ Returned(t, "synthetic")
        /\ host[t].downAtCall # -1
        /\ suppress_input = 1

\* C18: the suppression state is accessed under mutual exclusion: a host
\* thread evaluates `suppress_input` and timediff_ms(&last_injection_time,
\* ...) only when no FIFO reader is between the two stores of
\* get_current_time(&last_injection_time), so the timestamp it reads is
\* one that the clock returned.
ReadsStamp(t) ==
    /\ host[t].pc = "real"
    /\ host'[t].pc # "real"
    /\ host'[t].onTarget
    /\ host'[t].result > 0
    /\ suppress_input # 0

C18_Exclusive ==
    [][ \A t \in Hosts : ReadsStamp(t) => ~Stamping ]_vars

(***************************************************************************)
(* Properties of the reader's loop                                         *)
(***************************************************************************)
\* FIFO reader c is between close(fd) and a successful open()
Reopens(c) ==
    \/ chan[c].pc = "read" /\ chan'[c].pc = "open"
    \/ chan[c].pc = "open" /\ chan'[c].pc \in { "open", "read" }

\* C23: a FIFO reader that was started never terminates: whatever it
\* does, it is again and again at the read() of the FIFO, after a failed
\* open(), after end of stream and after each command; and the steps from
\* close(fd) to the next successful open() change neither the ring nor
\* what it has accepted.
C23_ReaderNeverEnds ==
    /\ \A c \in Chans :
          [](chan[c].pc # "none" => []<>(chan[c].pc = "read"))
    /\ [][ \A c \in Chans :
             Reopens(c) => UNCHANGED << queue, q_head, q_tail, accepted >>
         ]_vars

\* the FIFO is being opened again after a command, with its events queued
C23_Witness ==
    \E c \in Chans :
        /\ chan[c].pc = "open"
        /\ chan[c].fed # << >>
        /\ QLen > 0
        /\ QContents = accepted

C28_EachLineRuns ==
    \A c \in Chans :
        (chan[c].pc = "read" /\ chan[c].fed = << TxtThreeLines >>) =>
            chan[c].ran = << "PEN_DOWN", "PEN_MOVE", "PEN_UP" >>

\* fifo_reader of src/Rm2/src/inject.c does run every line of a chunk, in
\* order, and skips comments and empty lines
C28_Rm2EachLineRuns ==
    \A c \in Chans :
        chan[c].pc = "read" =>
            /\ chan[c].fed = << TxtThreeLines >> =>
                  chan[c].ran = << "PEN_DOWN", "PEN_MOVE", "PEN_UP" >>
            /\ chan[c].fed = << TxtCommented >> =>
                  chan[c].ran = << "PEN_UP" >>

(***************************************************************************)
(* Properties of the carry-over                                            *)
(***************************************************************************)
\* FIFO reader c leaves the loop over the lines for the next read()
Saves(c) == chan[c].pc = "line" /\ chan'[c].pc = "read"

\* C26: leftover always holds fewer than sizeof(leftover) bytes; when the
\* reader goes back to read(), an unfinished line of sizeof(leftover) bytes
\* or more leaves leftover empty, and a shorter one is kept whole.
C26_LeftoverBounded ==
    /\ [](\A c \in Chans : Len(chan[c].leftover) < LeftoverSize)
    /\ [][ \A c \in Chans :
             Saves(c) =>
                chan'[c].leftover =
                    IF Len(chan[c].combined) >= LeftoverSize
                    THEN << >> ELSE chan[c].combined
         ]_vars

\* an unfinished line of sizeof(leftover) bytes was read and not kept,
\* after one of sizeof(leftover) - 1 bytes had been kept
C26_Witness ==
    \E c \in Chans :
        /\ chan[c].pc = "read"
        /\ chan[c].fed = << TxtFitComment, TxtSplitHead >>
        /\ chan[c].leftover = << >>

\* C30: the rest of a line whose head was too long to be carried over is
\* not run as a command: after the 256 bytes `#   ...' and then `PEN_UP\n',
\* which end the same comment line, no branch has been run and nothing was
\* enqueued.
C30_LongLineDropped ==
    \A c \in Chans :
        (chan[c].pc = "read" /\ chan[c].fed = << TxtLongComment, TxtUp >>) =>
            /\ chan[c].ran = << >>
            /\ accepted = << >>

(***************************************************************************)
(* Properties of DELAY                                                     *)
(***************************************************************************)
\* the chunks whose DELAY lies in (0, DelayCapMs], and its milliseconds
Obeyed == { TxtUpDelayUp, TxtDelayCap }

ObeyedMs(txt) == IF txt = TxtUpDelayUp THEN 100 ELSE DelayCapMs

\* C22: DELAY pauses the FIFO reader alone.  The reader sleeps only for
\* DELAY 100 and DELAY 1000, never for DELAY 0, DELAY -5 or DELAY 1001;
\* the sleep ends no earlier than the milliseconds asked for, and until
\* then the reader looks at no further line; no step of a DELAY changes
\* the ring, what it accepted, the count of drops, suppress_input or
\* last_injection_time; and a host thread in its drain loop takes an event
\* off the ring with each step while the reader sleeps.
C22_DelayPausesReader ==
    /\ [](\A c \in Chans :
            chan[c].pc = "sleep" => LastFed(chan[c]) \in Obeyed)
    /\ [][ \A c \in Chans :
             /\ (chan[c].pc = "line" /\ chan'[c].pc = "sleep") =>
                   chan'[c].wake =
                       Us(now) + ObeyedMs(LastFed(chan[c])) * UsPerMs
             /\ (chan[c].pc = "sleep" /\ chan'[c] # chan[c]) =>
                   /\ Us(now) >= chan[c].wake
                   /\ chan'[c] = [chan[c] EXCEPT !.pc = "line"]
             /\ (chan'[c] # chan[c] /\ chan'[c].op = "DELAY") =>
                   UNCHANGED << queue, q_head, q_tail, accepted, drops,
                                suppress_input, last_injection_time >>
             /\ \A t \in Hosts :
                   (/\ chan[c].pc = "sleep"
                    /\ host[t].pc = "drain"
                    /\ host'[t] # host[t]
                    /\ QLen > 0) =>
                       Len(dequeued') = Len(dequeued) + 1
         ]_vars

\* the reader sleeps, its time not yet over, and the host is draining what
\* was queued before the DELAY
C22_Witness ==
    \E c \in Chans, t \in Hosts :
        /\ chan[c].pc = "sleep"
        /\ chan[c].fed = << TxtUpDelayUp >>
        /\ Us(now) < chan[c].wake
        /\ host[t].pc = "drain"
        /\ host[t].injected >= 1
        /\ QLen > 0

\* a DELAY out of range was passed over and the next line was run
C22_Ignored ==
    \E c \in Chans :
        /\ chan[c].fed = << TxtDelayOver >>
        /\ chan[c].ran = << "DELAY", "PEN_UP" >>
        /\ ticks = 0

(***************************************************************************)
(* Properties of a full ring                                               *)
(***************************************************************************)
\* C29: no unit is left in the ring truncated by an overflow: once no FIFO
\* reader is in the middle of a unit, the event accepted last is the
\* SYN_REPORT that closes a unit.
C29_NoTruncatedUnit ==
    (/\ \A c \in Chans : chan[c].pc # "enq"
     /\ accepted # << >>) =>
        /\ accepted[Len(accepted)].type = EV_SYN
        /\ accepted[Len(accepted)].code = SYN_REPORT

\* C27: no thread writes to stderr between pthread_mutex_lock and
\* pthread_mutex_unlock of the ring: the warning of a full ring is written
\* after the lock is released.
C27_NoIoUnderLock == \A c \in Chans : ~chan[c].held_io

(***************************************************************************)
(* Properties of the cursor                                                *)
(***************************************************************************)
\* the positions of the events of one axis in a buffer
AxisAt(events, code) ==
    { i \in 1..Len(events) :
          events[i].type = EV_ABS /\ events[i].code = code }

\* the value of the last event of one axis in a buffer, `was' without one
LastAxis(events, code, was) ==
    IF AxisAt(events, code) = { } THEN was
    ELSE events[CHOOSE i \in AxisAt(events, code) :
                    \A j \in AxisAt(events, code) : j <= i].value

\* host thread t returns a genuine sample of the digitizer to its caller
PassesThrough(t) ==
    /\ host[t].pc \in { "real", "clear" }
    /\ Returned(t, "real")'
    /\ host'[t].onTarget
    /\ host'[t].result > 0

\* C25: the step that passes a genuine sample of the digitizer through
\* leaves in last_pen_x (last_pen_y) the value of the last ABS_X (ABS_Y)
\* event of the result, the old value if the result has none, and returns
\* the byte count and the buffer of the real read; no other step, a drain
\* or a discard among them, changes last_pen_x or last_pen_y.
C25_CursorTracksGenuine ==
    [][ /\ \A t \in Hosts :
              PassesThrough(t) =>
                 /\ last_pen_x' = LastAxis(host'[t].hw, ABS_X, last_pen_x)
                 /\ last_pen_y' = LastAxis(host'[t].hw, ABS_Y, last_pen_y)
                 /\ host'[t].ret = host'[t].result
                 /\ host'[t].buf = host'[t].hw
        /\ (<< last_pen_x, last_pen_y >>' # << last_pen_x, last_pen_y >>) =>
              \E t \in Hosts : PassesThrough(t)
      ]_vars

\* a sample holding ABS_X alone was passed through after one holding both
C25_Witness ==
    \E t \in Hosts :
        /\ Returned(t, "real")
        /\ host[t].onTarget
        /\ host[t].result = RecordSize
        /\ last_pen_x = HwSample[1].value
        /\ last_pen_y = HwSample[2].value

(***************************************************************************)
(* Properties of the mapper                                                *)
(***************************************************************************)
DisplayCorners ==
    { << 0, 0 >>, << DISPLAY_WIDTH, 0 >>, << 0, DISPLAY_HEIGHT >>,
      << DISPLAY_WIDTH, DISPLAY_HEIGHT >> }

usable_map(p) == << usable_to_wacom_x(p[1], p[2]), usable_to_wacom_y(p[1], p[2]) >>

to_wacom(p) == << to_wacom_x(p[1], p[2]), to_wacom_y(p[1], p[2]) >>

\* where ABS_X and ABS_Y stand in a sequence of events that holds both
AxisIndex(events) ==
    << (CHOOSE i \in 1..Len(events) :
            events[i].type = EV_ABS /\ events[i].code = ABS_X),
       (CHOOSE i \in 1..Len(events) :
            events[i].type = EV_ABS /\ events[i].code = ABS_Y) >>

\* the values of ABS_X and ABS_Y in such a sequence
RawAxes(events) ==
    << events[AxisIndex(events)[1]].value, events[AxisIndex(events)[2]].value >>

\* the mapper over the usable ranges gives the four corners exactly
C19_UsableCorners ==
    /\ usable_map(<< 0, 0 >>) = << 20820, 90 >>
    /\ usable_map(<< 1404, 0 >>) = << 20820, 15712 >>
    /\ usable_map(<< 0, 1872 >>) = << 211, 90 >>
    /\ usable_map(<< 1404, 1872 >>) = << 211, 15712 >>

\* C19: the mapper over the usable ranges X = [211, 20820] (inverted, fed
\* by display Y) and Y = [90, 15712] (fed by display X) gives (20820, 90),
\* (20820, 15712), (211, 90) and (211, 15712) at the four display corners,
\* and these are the values the engine puts into ABS_X and ABS_Y: a FIFO
\* reader that picked PEN_DOWN 1404 1872 or PEN_MOVE 1404 1872 hands
\* (211, 15712) to enqueue, and to_wacom_x, to_wacom_y give the same four
\* corners.
C19_EngineCorners ==
    \A c \in Chans :
        (/\ chan[c].fed # << >>
         /\ LastFed(chan[c]) \in { TxtDownCorner, TxtMoveCorner }
         /\ chan[c].pc = "enq"
         /\ Len(chan[c].pending) = UnitLen(chan[c].op)) =>
            /\ C19_UsableCorners
            /\ RawAxes(chan[c].pending) =
                  usable_map(<< DISPLAY_WIDTH, DISPLAY_HEIGHT >>)
            /\ \A p \in DisplayCorners : to_wacom(p) = usable_map(p)

(***************************************************************************)
(* Properties of the interleaving of the host threads and the FIFO reader  *)
(***************************************************************************)
\* C31: once a PEN_DOWN has written its mark (timestamp and
\* suppress_input), every genuine read of the target with a positive
\* result that was entered after the mark and completes within the quiet
\* window after it is discarded: no store of suppress_input = 0 decided
\* from an older timestamp undoes the newer mark.
C31_MarkNotOverwritten ==
    \A t \in Hosts :
        (/\ host[t].pc = "done"
         /\ host[t].onTarget
         /\ host[t].result > 0
         /\ host[t].inWindow) =>
            /\ host[t].path = "discarded"
            /\ host[t].ret = 0

\* the positions in `accepted' of the events in the buffer of host thread t
Delivered(t) == { host[t].idx[i] : i \in 1..Len(host[t].idx) }

\* C32: every event enqueue accepted is handed to exactly one read() call,
\* once, also while two host threads drain at the same time: at every
\* moment the accepted events are the ones handed out plus the ones still
\* in the ring; no position of `accepted' is in two callers' buffers or
\* twice in one; and each dequeue hands the oldest undelivered event to one
\* caller and leaves the other callers' buffers alone.
C32_DeliveredOnce ==
    /\ [](/\ Len(accepted) = Len(dequeued) + QLen
          /\ \A t \in Hosts :
                /\ Cardinality(Delivered(t)) = Len(host[t].idx)
                /\ Delivered(t) \subseteq 1..Len(dequeued)
                /\ \A i \in 1..Len(host[t].idx) :
                      host[t].buf[i] = accepted[host[t].idx[i]]
          /\ \A t, u \in Hosts :
                t # u => Delivered(t) \cap Delivered(u) = { })
    /\ [][ /\ QLen' < QLen => Len(dequeued') = Len(dequeued) + 1
           /\ Len(dequeued') = Len(dequeued) + 1 =>
                 \E t \in Hosts :
                    /\ host'[t].buf =
                          Append(host[t].buf, accepted[Len(dequeued) + 1])
                    /\ \A u \in Hosts \ { t } : host'[u].buf = host[u].buf
         ]_vars

\* two drains took turns: one caller holds the first and the third event
\* accepted, the other caller the second
C32_Witness ==
    \E t, u \in Hosts :
        /\ Returned(t, "synthetic")
        /\ Returned(u, "synthetic")
        /\ host[t].idx = << 1, 3 >>
        /\ host[u].idx = << 2 >>

\* host thread t saw the ring not empty and took no event from it
CameUpEmpty(t) == host[t].saw /\ host[t].injected = 0

C33_SmallRequest ==
    \E t \in Hosts :
        /\ CameUpEmpty(t)
        /\ host[t].count < RecordSize
        /\ Returned(t, "real")

(***************************************************************************)
(* Properties of reads that are not genuine samples of the target          *)
(***************************************************************************)
\* the state a read of another handle has to leave alone
shimState ==
    << queue, q_head, q_tail, accepted, dequeued, suppress_input,
       last_injection_time, last_pen_x, last_pen_y, wacom_fd, started >>

\* host thread t enters read()
Enters(t) == host[t].pc \in { "idle", "done" } /\ host'[t] # host[t]

\* host thread t takes a step of its call behind the detection
Proceeds(t) ==
    /\ host[t].pc \in { "drain", "real", "clear" }
    /\ \/ host'[t].pc # host[t].pc
       \/ host'[t].injected # host[t].injected

\* C34: a read of a handle that is not the target, and is not adopted as
\* the target by this call, goes straight to the real read; every step a
\* call takes on a handle that is not the target leaves the ring, the
\* suppression state, the cursor and the target alone; and when such a
\* call returns, it returns the real read's result and buffer, whatever
\* the suppression state.  This holds before the target is resolved and
\* after.
C34_OtherHandlesPass ==
    [][ \A t \in Hosts :
          /\ (/\ Enters(t)
              /\ host'[t].fd # wacom_fd
              /\ ~(wacom_fd = NoFd /\ is_wacom(host'[t].fd))) =>
                 /\ host'[t].pc = "real"
                 /\ ~host'[t].saw
                 /\ UNCHANGED shimState
          /\ (Proceeds(t) /\ host[t].fd # wacom_fd) =>
                 /\ UNCHANGED shimState
                 /\ host'[t].pc = "done" =>
                       /\ Returned(t, "real")'
                       /\ host'[t].ret = host'[t].result
                       /\ host'[t].buf = host'[t].hw
      ]_vars

\* a read of the touch screen returned its bytes while the ring held
\* events
C34_Witness ==
    \E t \in Hosts :
        /\ Returned(t, "real")
        /\ host[t].fd = FdTouch
        /\ host[t].ret = host[t].count
        /\ wacom_fd = FdWacom
        /\ QLen > 0

\* the real read of host thread t returns
Completes_real(t) == host[t].pc = "real" /\ host'[t].pc # "real"

\* C35: a real read of the target that returns 0 or a negative value is
\* returned to the caller as it is, also while suppress_input is set and
\* whether or not the quiet window has passed; the step leaves
\* suppress_input, the injection timestamp and the cursor unchanged.
C35_EofAndErrorPass ==
    [][ \A t \in Hosts :
          (/\ Completes_real(t)
           /\ host'[t].onTarget
           /\ host'[t].result <= 0) =>
              /\ Returned(t, "real")'
              /\ host'[t].ret = host'[t].result
              /\ host'[t].buf = host'[t].hw
              /\ UNCHANGED << suppress_input, last_injection_time,
                              last_pen_x, last_pen_y >>
      ]_vars

\* a real read of the target returned an error after the quiet window had
\* passed, and the controller is still Suppressing
C35_Witness ==
    \E t \in Hosts :
        /\ Returned(t, "real")
        /\ host[t].onTarget
        /\ host[t].ret = -1
        /\ suppress_input = 1
        /\ timediff_ms(last_injection_time, now) > SUPPRESSION_MS

\* end of stream was returned inside the quiet window
C35_EofInWindow ==
    \E t \in Hosts :
        /\ Returned(t, "real")
        /\ host[t].onTarget
        /\ host[t].ret = 0
        /\ host[t].result = 0
        /\ suppress_input = 1
        /\ timediff_ms(last_injection_time, now) <= SUPPRESSION_MS

\* C37: when the FIFO reports end of stream, an unfinished last line is
\* not run: the step runs no branch and enqueues nothing; and it is not
\* carried over: after the next open leftover is empty, so that the first
\* chunk of the new session is split into lines on its own.
C37_FragmentDiesAtEof ==
    [][ \A c \in Chans :
          /\ (chan[c].pc = "read" /\ chan'[c].pc = "open") =>
                 /\ chan'[c].ran = chan[c].ran
                 /\ UNCHANGED << queue, q_head, q_tail, accepted >>
          /\ (chan[c].pc = "open" /\ chan'[c].pc = "read") =>
                 chan'[c].leftover = << >>
          /\ (chan[c].pc = "open" /\ chan'[c].pc = "line") => FALSE
          /\ (chan[c].pc = "read" /\ chan'[c].pc = "line") =>
                 chan'[c].combined = chan[c].leftover \o LastFed(chan'[c])
      ]_vars

\* `PEN_UP' without its newline was the last thing of one session and
\* `PEN_UP\n' the first of the next: the command was run once, the
\* fragment never, and the join `PEN_UPPEN_UP' was not looked at
C37_Witness ==
    \E c \in Chans :
        /\ chan[c].pc = "read"
        /\ chan[c].fed = << TxtUpNoNewline, TxtUp >>
        /\ chan[c].ran = << "PEN_UP" >>
        /\ accepted = UpEvents
        /\ chan[c].leftover = << >>

\* C38: a PEN_DOWN or PEN_MOVE whose point maps outside the range of the
\* sensor is not rejected and its axes are not clamped: the line
\* `PEN_DOWN -5 2000' hands its six events to enqueue with ABS_X = -1433
\* and ABS_Y = -56 and writes one warning; `PEN_MOVE 1500 -1' hands its
\* four events to enqueue with ABS_X = 20977 and ABS_Y = 16800 and writes
\* none.
C38_NoClampNoReject ==
    [][ \A c \in Chans :
          chan[c].pc = "line" =>
             /\ chan[c].combined = TxtDownOutside =>
                   /\ chan'[c].pc = "put"
                   /\ chan'[c].pending =
                         << make_event(EV_KEY, BTN_TOOL_PEN, 1),
                            make_event(EV_KEY, BTN_TOUCH, 1),
                            make_event(EV_ABS, ABS_X, -1433),
                            make_event(EV_ABS, ABS_Y, -56),
                            make_event(EV_ABS, ABS_PRESSURE, PRESSURE),
                            make_event(EV_SYN, SYN_REPORT, 0) >>
                   /\ chan'[c].warns = chan[c].warns + 1
             /\ chan[c].combined = TxtMoveOutside =>
                   /\ chan'[c].pc = "put"
                   /\ chan'[c].pending =
                         << make_event(EV_ABS, ABS_X, 20977),
                            make_event(EV_ABS, ABS_Y, 16800),
                            make_event(EV_ABS, ABS_PRESSURE, PRESSURE),
                            make_event(EV_SYN, SYN_REPORT, 0) >>
                   /\ chan'[c].warns = chan[c].warns
      ]_vars

\* the events of both lines were stored in the ring with their axes out
\* of range
C38_Witness ==
    \E c \in Chans :
        /\ chan[c].pc = "read"
        /\ chan[c].fed = << TxtMoveOutside, TxtDownOutside >>
        /\ chan[c].warns = 1
        /\ SubSeq(accepted, 1, 2) =
              << make_event(EV_ABS, ABS_X, 20977),
                 make_event(EV_ABS, ABS_Y, 16800) >>
        /\ out_of_bounds(accepted[1].value, accepted[2].value)

(***************************************************************************)
(* Properties of the header mapper                                         *)
(***************************************************************************)
\* the point is on the display
OnDisplay(p) ==
    /\ p[1] \in 0..DISPLAY_WIDTH
    /\ p[2] \in 0..DISPLAY_HEIGHT

\* C39: for a point on the display the mapper's outputs lie in the usable
\* ranges, 211 <= rawX <= 20820 and 90 <= rawY <= 15712; rawX does not
\* grow when y grows and is the same for every x; rawY does not shrink
\* when x grows and is the same for every y; clamping such an output
\* changes nothing; and for every point, on the display or not, clamping
\* a second time changes nothing.
C39_UsableRange ==
    /\ [](\A c \in Chans :
            LET x == chan[c].point[1]
                y == chan[c].point[2]
                ch == chan[c]
            IN  (ch.pc \in { "clamp", "clamp_again", "mapped" }
                    /\ OnDisplay(ch.point)) =>
                   /\ ch.raw[1] >= 211 /\ ch.raw[1] <= 20820
                   /\ ch.raw[2] >= 90 /\ ch.raw[2] <= 15712
                   /\ ch.clamped = ch.raw
                   /\ y < DISPLAY_HEIGHT =>
                         usable_to_wacom_x(x, y + 1) <= ch.raw[1]
                   /\ x < DISPLAY_WIDTH =>
                         usable_to_wacom_y(x + 1, y) >= ch.raw[2]
                   /\ \A x2 \in 0..DISPLAY_WIDTH :
                         usable_to_wacom_x(x2, y) = ch.raw[1]
                   /\ \A y2 \in 0..DISPLAY_HEIGHT :
                         usable_to_wacom_y(x, y2) = ch.raw[2])
    /\ [][ \A c \in Chans :
             chan[c].pc = "clamp_again" =>
                chan'[c].clamped = chan[c].clamped
         ]_vars

\* the bottom right corner was mapped to the low end of rawX and the high
\* end of rawY, and the clamps left it alone
C39_Witness ==
    \E c \in Chans :
        /\ chan[c].pc = "mapped"
        /\ chan[c].point = << DISPLAY_WIDTH, DISPLAY_HEIGHT >>
        /\ chan[c].raw = << 211, 15712 >>
        /\ chan[c].clamped = chan[c].raw

\* a point outside the display was mapped outside the usable ranges and
\* clamped to their ends
C39_Clamped ==
    \E c \in Chans :
        /\ chan[c].pc = "mapped"
        /\ ~OnDisplay(chan[c].point)
        /\ chan[c].clamped = << WACOM_X_MIN, WACOM_Y_MAX >>
        /\ chan[c].raw[1] < WACOM_X_MIN
        /\ chan[c].raw[2] > WACOM_Y_MAX

\* C40: whatever integers a line carries, the products of the mapper fit
\* an int, so that the axis handed to enqueue is the scaled value
\* truncated toward zero: for `PEN_MOVE 200000 0' that is ABS_X = 20966
\* and ABS_Y = 200000 * 15725 / 1404 = 2240028.
C40_ProductFits ==
    \A c \in Chans :
        /\ ~chan[c].overflowed
        /\ chan[c].pc # "stopped"
        /\ (/\ chan[c].pc = "put"
            /\ chan[c].op = "PEN_MOVE"
            /\ Len(chan[c].pending) = UnitLen("PEN_MOVE")
            /\ LastFed(chan[c]) = TxtMoveWide) =>
               /\ chan[c].pending[1] = make_event(EV_ABS, ABS_X, 20966)
               /\ chan[c].pending[2] = make_event(EV_ABS, ABS_Y, 2240028)

\* the product wrapped: the axis handed to enqueue is negative
C40_Wrapped ==
    \E c \in Chans :
        /\ chan[c].pc = "put"
        /\ LastFed(chan[c]) = TxtMoveWide
        /\ Len(chan[c].pending) = UnitLen("PEN_MOVE")
        /\ chan[c].pending[2] = make_event(EV_ABS, ABS_Y, -819065)

(***************************************************************************)
(* Properties of the parser's buffers                                      *)
(***************************************************************************)
\* C36: whatever line the channel receives, sscanf stores no more than
\* sizeof(cmd) bytes into cmd; a line whose first word is longer than
\* sizeof(cmd) - 1 characters is handled as an unknown keyword: no branch
\* is run, nothing is enqueued and the reader goes on reading.
C36_KeywordFits ==
    \A c \in Chans :
        /\ chan[c].stored <= CmdSize
        /\ chan[c].pc # "stopped"
        /\ (chan[c].fed # << >> /\ LastFed(chan[c]) = TxtLongWord) =>
               chan[c].pc \in { "read", "open" }

\* the longest keyword that fits was read and skipped as unknown
C36_Fits ==
    \E c \in Chans :
        /\ chan[c].fed # << >>
        /\ LastFed(chan[c]) = TxtFitWord
        /\ chan[c].stored = CmdSize
        /\ chan[c].pc = "read"
        /\ accepted = << >>

TypeOK ==
    /\ q_head \in 0..(MAX_QUEUE - 1)
    /\ q_tail \in 0..(MAX_QUEUE - 1)
    /\ wacom_fd \in Fds \cup { NoFd }
    /\ suppress_input \in { 0, 1 }
    /\ started \in 0..Cardinality(Hosts)

====
